---- MODULE Spec2Model ----
(***************************************************************************)
(* Model of the ACP agent-messaging correlation core:                      *)
(*   - Conversation            (src/unnamed/part_003)                      *)
(*   - RequestResponseProtocol (src/ACP/src/conversation/protocols/        *)
(*                              request-response.ts)                       *)
(* Optional JavaScript values are sequences: <<>> is undefined, <<v>> is v. *)
(* Timestamps (Date.now()) are not modelled.                               *)
(***************************************************************************)
EXTENDS Integers, Sequences, FiniteSets, TLC

VARIABLES conv, convTimers, deadlinePassed, convEvents, convErr,
          protocol, requests, pendingRequests, timers, retryDelays, protoEvents, received,
          built, reply, msgErr, msgWarned,
          agent, calls, sent

convVars == <<conv, convTimers, deadlinePassed, convEvents, convErr>>

protoVars == <<protocol, requests, pendingRequests, timers, retryDelays, protoEvents, received>>

messageVars == <<built, reply, msgErr, msgWarned>>

agentVars == <<agent, calls, sent>>

\* the state of the core classes Message and Agent
coreVars == <<messageVars, agentVars>>

vars == <<conv, convTimers, deadlinePassed, convEvents, convErr,
          protocol, requests, pendingRequests, timers, retryDelays, protoEvents, received,
          built, reply, msgErr, msgWarned,
          agent, calls, sent>>

(* ---------------- bounds ---------------- *)
\* longest message log explored when the conversation has no effective maximum
MaxLog == 2
\* most participantAdded / participantRemoved notifications explored
MaxParticipantEvents == 1

(* ---------------- optional values and JS truthiness ---------------- *)
Undefined == <<>>

Some(v) == <<v>>

\* truthiness of an optional number: undefined and 0 are falsy
TruthyNum(o) == o # Undefined /\ o[1] # 0

\* truthiness of an optional string: undefined and "" are falsy
TruthyStr(o) == o # Undefined /\ o[1] # ""

Includes(seq, x) == \E i \in 1..Len(seq) : seq[i] = x

\* Array.prototype.indexOf: first index of x (1-based), 0 when absent
IndexOf(seq, x) ==
  IF Includes(seq, x) THEN CHOOSE i \in 1..Len(seq) : seq[i] = x /\ \A j \in 1..(i-1) : seq[j] # x
  ELSE 0

\* Array.prototype.splice(index, 1)
Splice1(seq, i) == [j \in 1..(Len(seq)-1) |-> IF j < i THEN seq[j] ELSE seq[j+1]]

(* ---------------- Conversation: inputs ---------------- *)
ConvId == "c1"

Agents == {"A", "B"}

\* constructor options explored: each rejected shape, zero values, and
\* conversations with / without a deadline, a maximum and a listed initiator,
\* and one whose participants array names an agent twice
ConstructInputs ==
  {[initiator |-> "",  participants |-> <<"B">>,      timeout |-> Undefined, maxMessages |-> Undefined],
   [initiator |-> "A", participants |-> <<>>,         timeout |-> Undefined, maxMessages |-> Undefined],
   [initiator |-> "A", participants |-> <<"B">>,      timeout |-> Some(-1),  maxMessages |-> Undefined],
   [initiator |-> "A", participants |-> <<"B">>,      timeout |-> Undefined, maxMessages |-> Some(-1)],
   [initiator |-> "A", participants |-> <<"B">>,      timeout |-> Some(0),   maxMessages |-> Some(0)],
   [initiator |-> "A", participants |-> <<"B">>,      timeout |-> Undefined, maxMessages |-> Undefined],
   [initiator |-> "A", participants |-> <<"B", "B">>, timeout |-> Undefined, maxMessages |-> Undefined],
   [initiator |-> "A", participants |-> <<"A", "B">>, timeout |-> Some(100), maxMessages |-> Some(1)]}

MsgIds == {"m1", "m2"}

\* messages handed to addMessage: an id and an optional conversation id
MessageInputs ==
  {[id |-> "m1", conversationId |-> Undefined],
   [id |-> "m2", conversationId |-> Some(ConvId)],
   [id |-> "m2", conversationId |-> Some("c2")]}

ResultInputs == {Undefined, Some("r1")}

ErrorInputs == {"e1"}

ReasonInputs == {Undefined, Some("why")}

\* keys of the metadata record: the one cancel() writes and one of the caller
MetadataKeys == {"cancellationReason", "k1"}

\* setMetadata(key, value) calls
MetadataInputs == {[key |-> "k1", value |-> "v1"], [key |-> "cancellationReason", value |-> "v1"]}

\* the options argument of fromContext
FromContextOptionInputs ==
  {[timeout |-> Undefined, maxMessages |-> Undefined],
   [timeout |-> Some(100), maxMessages |-> Some(1)]}

ConversationStates == {"initiated", "active", "waiting", "completed", "failed", "timeout", "cancelled"}

TerminalStates == {"completed", "failed", "cancelled", "timeout"}

\* the one timer handle a Conversation ever creates
ConvTimer == 1

(* ---------------- Conversation: state ---------------- *)
\* value of the fields before the constructor has returned an object
NoConversation ==
  [created |-> FALSE, id |-> ConvId, participants |-> <<>>, initiator |-> "",
   timeout |-> Undefined, maxMessages |-> Undefined, state |-> "initiated",
   messages |-> <<>>, messageIndex |-> [m \in MsgIds |-> Undefined],
   metadata |-> [key \in MetadataKeys |-> Undefined],
   timeoutHandle |-> Undefined, result |-> Undefined, error |-> Undefined,
   \* history field: the object was made by fromContext
   rebuilt |-> FALSE]

isActive(c) == c.state = "active"

\* mutant: the list of terminal states misses 'timeout'
isTerminal_noTimeout(c) == c.state \in {"completed", "failed", "cancelled"}

isTerminal(c) == c.state \in TerminalStates

Emit(name, a, b) == Append(convEvents, [name |-> name, a |-> a, b |-> b])

(* ---------------- Conversation: operations ---------------- *)
\* a call that throws: only the raised error is observable
Throws(msg) ==
  /\ convErr' = msg
  /\ UNCHANGED <<conv, convTimers, deadlinePassed, convEvents>>

\* new Conversation(options)
Construct(initiator, participants, timeout, maxMessages) ==
  /\ UNCHANGED <<protoVars, coreVars>>
  /\ ~conv.created
  /\ IF initiator = "" THEN Throws("Conversation initiator is required")
     ELSE IF Len(participants) = 0 THEN Throws("Conversation must have at least one participant")
     ELSE IF TruthyNum(timeout) /\ timeout[1] <= 0 THEN Throws("Timeout must be positive")
     ELSE IF TruthyNum(maxMessages) /\ maxMessages[1] <= 0 THEN Throws("Max messages must be positive")
     ELSE
       /\ conv' = [NoConversation EXCEPT
                     !.created = TRUE,
                     !.participants = IF Includes(participants, initiator) THEN participants
                                      ELSE Append(participants, initiator),
                     !.initiator = initiator,
                     !.timeout = timeout,
                     !.maxMessages = maxMessages,
                     \* setupTimeout
                     !.timeoutHandle = IF TruthyNum(timeout) THEN Some(ConvTimer) ELSE Undefined]
       /\ convTimers' = IF TruthyNum(timeout) THEN {ConvTimer} ELSE {}
       /\ convErr' = ""
       /\ UNCHANGED <<deadlinePassed, convEvents>>

\* mutant: the old state is read after the new one was assigned
transitionTo_oldAfterSet(c, newState) ==
  /\ conv' = [c EXCEPT !.state = newState, !.timeoutHandle = Undefined]
  /\ convTimers' = IF c.timeoutHandle # Undefined THEN convTimers \ {c.timeoutHandle[1]} ELSE convTimers
  /\ convEvents' = convEvents \o <<[name |-> "stateChanged", a |-> newState, b |-> newState],
                                   [name |-> newState, a |-> "", b |-> ""]>>

\* mutant: the transition does not clear the deadline timer
transitionTo_keepTimer(c, newState) ==
  /\ conv' = [c EXCEPT !.state = newState]
  /\ convTimers' = convTimers
  /\ convEvents' = convEvents \o <<[name |-> "stateChanged", a |-> newState, b |-> c.state],
                                   [name |-> newState, a |-> "", b |-> ""]>>

\* mutant: stateChanged emitted with its two arguments swapped
transitionTo_swapped(c, newState) ==
  /\ conv' = [c EXCEPT !.state = newState, !.timeoutHandle = Undefined]
  /\ convTimers' = IF c.timeoutHandle # Undefined THEN convTimers \ {c.timeoutHandle[1]} ELSE convTimers
  /\ convEvents' = convEvents \o <<[name |-> "stateChanged", a |-> c.state, b |-> newState],
                                   [name |-> newState, a |-> "", b |-> ""]>>

\* transitionTo(newState) applied to the conversation value c (c carries the
\* result / error / metadata assignments the caller made before the call)
transitionTo(c, newState) ==
  /\ conv' = [c EXCEPT !.state = newState, !.timeoutHandle = Undefined]
  \* clearTimeout
  /\ convTimers' = IF c.timeoutHandle # Undefined THEN convTimers \ {c.timeoutHandle[1]} ELSE convTimers
  /\ convEvents' = convEvents \o <<[name |-> "stateChanged", a |-> newState, b |-> c.state],
                                   [name |-> newState, a |-> "", b |-> ""]>>

\* mutant: activate without the check that the state is 'initiated'
activate_unchecked ==
  /\ UNCHANGED <<protoVars, coreVars>>
  /\ conv.created
  /\ transitionTo(conv, "active")
  /\ convErr' = ""
  /\ UNCHANGED deadlinePassed

activate ==
  /\ UNCHANGED <<protoVars, coreVars>>
  /\ conv.created
  /\ IF conv.state # "initiated" THEN Throws("Cannot activate conversation")
     ELSE /\ transitionTo(conv, "active")
          /\ convErr' = ""
          /\ UNCHANGED deadlinePassed

setWaiting ==
  /\ UNCHANGED <<protoVars, coreVars>>
  /\ conv.created
  /\ IF ~isActive(conv) THEN Throws("Cannot set waiting")
     ELSE /\ transitionTo(conv, "waiting")
          /\ convErr' = ""
          /\ UNCHANGED deadlinePassed

complete(result) ==
  /\ UNCHANGED <<protoVars, coreVars>>
  /\ conv.created
  /\ IF isTerminal(conv) THEN Throws("Cannot complete conversation from terminal state")
     ELSE /\ transitionTo([conv EXCEPT !.result = result], "completed")
          /\ convErr' = ""
          /\ UNCHANGED deadlinePassed

fail(error) ==
  /\ UNCHANGED <<protoVars, coreVars>>
  /\ conv.created
  /\ IF isTerminal(conv) THEN Throws("Cannot fail conversation from terminal state")
     ELSE /\ transitionTo([conv EXCEPT !.error = Some(error)], "failed")
          /\ convErr' = ""
          /\ UNCHANGED deadlinePassed

cancel(reason) ==
  /\ UNCHANGED <<protoVars, coreVars>>
  /\ conv.created
  /\ IF isTerminal(conv) THEN Throws("Cannot cancel conversation from terminal state")
     ELSE /\ transitionTo(IF TruthyStr(reason)
                          THEN [conv EXCEPT !.metadata.cancellationReason = reason]
                          ELSE conv, "cancelled")
          /\ convErr' = ""
          /\ UNCHANGED deadlinePassed

\* The configured deadline elapses.  If the timer set by setupTimeout is still
\* armed its callback runs handleTimeout; a cleared timer never runs.
DeadlineElapses ==
  /\ UNCHANGED <<protoVars, coreVars>>
  /\ conv.created
  /\ TruthyNum(conv.timeout)
  /\ ~deadlinePassed
  /\ deadlinePassed' = TRUE
  /\ IF ConvTimer \in convTimers
     THEN \* handleTimeout
          IF ~isTerminal(conv)
          THEN /\ transitionTo(conv, "timeout")
               /\ UNCHANGED convErr
          ELSE /\ convTimers' = convTimers \ {ConvTimer}
               /\ UNCHANGED <<conv, convEvents, convErr>>
     ELSE UNCHANGED <<conv, convTimers, convEvents, convErr>>

\* mutant: the conversation id of the message is not compared
addMessage_anyConversation(message) ==
  /\ UNCHANGED <<protoVars, coreVars>>
  /\ conv.created
  /\ \/ Len(conv.messages) < MaxLog
     \/ TruthyNum(conv.maxMessages) /\ Len(conv.messages) >= conv.maxMessages[1]
  /\ IF TruthyNum(conv.maxMessages) /\ Len(conv.messages) >= conv.maxMessages[1]
     THEN Throws("Maximum number of messages reached")
     ELSE /\ conv' = [conv EXCEPT !.messages = Append(@, message),
                                  !.messageIndex[message.id] = Some(message)]
          /\ convEvents' = Emit("messageAdded", message.id, "")
          /\ convErr' = ""
          /\ UNCHANGED <<convTimers, deadlinePassed>>

\* mutant: the message is logged but not entered in the id index
addMessage_unindexed(message) ==
  /\ UNCHANGED <<protoVars, coreVars>>
  /\ conv.created
  /\ \/ Len(conv.messages) < MaxLog
     \/ TruthyNum(conv.maxMessages) /\ Len(conv.messages) >= conv.maxMessages[1]
  /\ IF message.conversationId # Undefined /\ message.conversationId[1] # conv.id
     THEN Throws("Message conversation ID does not match")
     ELSE IF TruthyNum(conv.maxMessages) /\ Len(conv.messages) >= conv.maxMessages[1]
     THEN Throws("Maximum number of messages reached")
     ELSE /\ conv' = [conv EXCEPT !.messages = Append(@, message)]
          /\ convEvents' = Emit("messageAdded", message.id, "")
          /\ convErr' = ""
          /\ UNCHANGED <<convTimers, deadlinePassed>>

\* mutant: capacity test with > in place of >=
addMessage_offByOne(message) ==
  /\ UNCHANGED <<protoVars, coreVars>>
  /\ conv.created
  /\ \/ Len(conv.messages) < MaxLog
     \/ TruthyNum(conv.maxMessages) /\ Len(conv.messages) >= conv.maxMessages[1]
  /\ IF message.conversationId # Undefined /\ message.conversationId[1] # conv.id
     THEN Throws("Message conversation ID does not match")
     ELSE IF TruthyNum(conv.maxMessages) /\ Len(conv.messages) > conv.maxMessages[1]
     THEN Throws("Maximum number of messages reached")
     ELSE /\ conv' = [conv EXCEPT !.messages = Append(@, message),
                                  !.messageIndex[message.id] = Some(message)]
          /\ convEvents' = Emit("messageAdded", message.id, "")
          /\ convErr' = ""
          /\ UNCHANGED <<convTimers, deadlinePassed>>

addMessage(message) ==
  /\ UNCHANGED <<protoVars, coreVars>>
  /\ conv.created
  /\ \/ Len(conv.messages) < MaxLog
     \/ TruthyNum(conv.maxMessages) /\ Len(conv.messages) >= conv.maxMessages[1]
  /\ IF message.conversationId # Undefined /\ message.conversationId[1] # conv.id
     THEN Throws("Message conversation ID does not match")
     ELSE IF TruthyNum(conv.maxMessages) /\ Len(conv.messages) >= conv.maxMessages[1]
     THEN Throws("Maximum number of messages reached")
     ELSE /\ conv' = [conv EXCEPT !.messages = Append(@, message),
                                  !.messageIndex[message.id] = Some(message)]
          /\ convEvents' = Emit("messageAdded", message.id, "")
          /\ convErr' = ""
          /\ UNCHANGED <<convTimers, deadlinePassed>>

\* getMessage(messageId): `this._messageIndex.get(messageId) || null`
getMessage(c, messageId) == c.messageIndex[messageId]

getMessages(c) == c.messages

getLastMessage(c) == IF Len(c.messages) > 0 THEN Some(c.messages[Len(c.messages)]) ELSE Undefined

ParticipantEventCount ==
  Cardinality({i \in 1..Len(convEvents) : convEvents[i].name \in {"participantAdded", "participantRemoved"}})

addParticipant(agentId) ==
  /\ UNCHANGED <<protoVars, coreVars>>
  /\ conv.created
  /\ ParticipantEventCount < MaxParticipantEvents
  /\ IF ~Includes(conv.participants, agentId)
     THEN /\ conv' = [conv EXCEPT !.participants = Append(@, agentId)]
          /\ convEvents' = Emit("participantAdded", agentId, "")
     ELSE UNCHANGED <<conv, convEvents>>
  /\ convErr' = ""
  /\ UNCHANGED <<convTimers, deadlinePassed>>

\* mutant: removeParticipant without the initiator check
removeParticipant_anyone(agentId) ==
  /\ UNCHANGED <<protoVars, coreVars>>
  /\ conv.created
  /\ ParticipantEventCount < MaxParticipantEvents
  /\ IF IndexOf(conv.participants, agentId) # 0
     THEN /\ conv' = [conv EXCEPT !.participants = Splice1(@, IndexOf(conv.participants, agentId))]
          /\ convEvents' = Emit("participantRemoved", agentId, "")
     ELSE UNCHANGED <<conv, convEvents>>
  /\ convErr' = ""
  /\ UNCHANGED <<convTimers, deadlinePassed>>

removeParticipant(agentId) ==
  /\ UNCHANGED <<protoVars, coreVars>>
  /\ conv.created
  /\ ParticipantEventCount < MaxParticipantEvents
  /\ IF agentId = conv.initiator THEN Throws("Cannot remove conversation initiator")
     ELSE /\ IF IndexOf(conv.participants, agentId) # 0
             THEN /\ conv' = [conv EXCEPT !.participants = Splice1(@, IndexOf(conv.participants, agentId))]
                  /\ convEvents' = Emit("participantRemoved", agentId, "")
             ELSE UNCHANGED <<conv, convEvents>>
          /\ convErr' = ""
          /\ UNCHANGED <<convTimers, deadlinePassed>>

setMetadata(key, value) ==
  /\ UNCHANGED <<protoVars, coreVars>>
  /\ conv.created
  /\ conv' = [conv EXCEPT !.metadata[key] = Some(value)]
  /\ convErr' = ""
  /\ UNCHANGED <<convTimers, deadlinePassed, convEvents>>

toContext(c) ==
  [id |-> c.id, participants |-> c.participants, state |-> c.state, metadata |-> c.metadata]

\* the error fromContext(context, options) throws, "" when it returns
fromContextError(context, options) ==
  IF Len(context.participants) = 0 THEN "Conversation must have at least one participant"
  ELSE IF context.participants[1] = "" THEN "Conversation initiator is required"
  ELSE IF TruthyNum(options.timeout) /\ options.timeout[1] <= 0 THEN "Timeout must be positive"
  ELSE IF TruthyNum(options.maxMessages) /\ options.maxMessages[1] <= 0 THEN "Max messages must be positive"
  ELSE ""

\* mutant: the state of the context is not copied to the new object
fromContext_initialState(context, options) ==
  [NoConversation EXCEPT
     !.created = TRUE,
     !.id = IF context.id # "" THEN context.id ELSE "uuid",
     !.participants = IF Includes(context.participants, context.participants[1])
                      THEN context.participants
                      ELSE Append(context.participants, context.participants[1]),
     !.initiator = context.participants[1],
     !.timeout = options.timeout,
     !.maxMessages = options.maxMessages,
     !.metadata = context.metadata,
     !.timeoutHandle = IF TruthyNum(options.timeout) THEN Some(ConvTimer) ELSE Undefined,
     !.rebuilt = TRUE]

\* the Conversation fromContext(context, options) returns: the constructor
\* with the first participant as initiator, then the state of the context
fromContext(context, options) ==
  [NoConversation EXCEPT
     !.created = TRUE,
     !.id = IF context.id # "" THEN context.id ELSE "uuid",
     !.participants = IF Includes(context.participants, context.participants[1])
                      THEN context.participants
                      ELSE Append(context.participants, context.participants[1]),
     !.initiator = context.participants[1],
     !.timeout = options.timeout,
     !.maxMessages = options.maxMessages,
     !.metadata = context.metadata,
     !.timeoutHandle = IF TruthyNum(options.timeout) THEN Some(ConvTimer) ELSE Undefined,
     !.state = context.state,
     !.rebuilt = TRUE]

\* Conversation.fromContext(conv.toContext(), options); from here on conv is
\* the new object, with its own timer and no notification emitted yet
RoundTrip(options) ==
  /\ UNCHANGED <<protoVars, coreVars>>
  /\ conv.created
  /\ IF fromContextError(toContext(conv), options) # ""
     THEN Throws(fromContextError(toContext(conv), options))
     ELSE /\ conv' = fromContext(toContext(conv), options)
          /\ convTimers' = IF TruthyNum(options.timeout) THEN {ConvTimer} ELSE {}
          /\ deadlinePassed' = FALSE
          /\ convEvents' = <<>>
          /\ convErr' = ""

ConvNext ==
  \/ \E o \in ConstructInputs : Construct(o.initiator, o.participants, o.timeout, o.maxMessages)
  \/ activate
  \/ setWaiting
  \/ \E r \in ResultInputs : complete(r)
  \/ \E e \in ErrorInputs : fail(e)
  \/ \E r \in ReasonInputs : cancel(r)
  \/ DeadlineElapses
  \/ \E m \in MessageInputs : addMessage(m)
  \/ \E a \in Agents : addParticipant(a)
  \/ \E a \in Agents : removeParticipant(a)

(* ======================= RequestResponseProtocol ======================= *)
(* ---------------- bounds ---------------- *)
(* ---------------- constants of the constructor ---------------- *)
DefaultTimeout == 30000

DefaultMaxRetries == 3

DefaultRetryDelay == 1000

\* JavaScript `a || b` on an optional number
OrElse(o, d) == IF TruthyNum(o) THEN o[1] ELSE d

(* ---------------- inputs ---------------- *)
ReqIds == {"r1", "r2"}

\* options of new RequestResponseProtocol(options)
ProtocolOptionInputs ==
  {[timeout |-> Some(50), maxRetries |-> Some(1), retryDelay |-> Some(10)],
   [timeout |-> Some(-1), maxRetries |-> Some(0), retryDelay |-> Undefined]}

\* the callers of initiateRequest: each makes one call and awaits its promise
Callers == {1, 2}

\* message and options of the n-th initiateRequest call: the first call is for
\* id r1, a later one for r1 again or for r2
CallInputs(n) ==
  IF n = 1
  THEN {[message |-> [id |-> "r1", performative |-> "request"],
         options |-> [timeout |-> Some(20), maxRetries |-> Some(0), retryDelay |-> Undefined]],
        [message |-> [id |-> "r1", performative |-> "request"],
         options |-> [timeout |-> Undefined, maxRetries |-> Some(2), retryDelay |-> Some(10)]],
        [message |-> [id |-> "r1", performative |-> "inform"],
         options |-> [timeout |-> Undefined, maxRetries |-> Undefined, retryDelay |-> Undefined]]}
  ELSE {[message |-> [id |-> "r1", performative |-> "request"],
         options |-> [timeout |-> Some(50), maxRetries |-> Some(1), retryDelay |-> Undefined]],
        [message |-> [id |-> "r2", performative |-> "request"],
         options |-> [timeout |-> Some(50), maxRetries |-> Some(1), retryDelay |-> Undefined]]}

\* inbound messages
InboundInputs ==
  {[id |-> "p1", performative |-> "inform",  inReplyTo |-> Some("r1"), content |-> Undefined],
   [id |-> "p2", performative |-> "inform",  inReplyTo |-> Some("r1"), content |-> Undefined],
   [id |-> "p1", performative |-> "inform",  inReplyTo |-> Some("r2"), content |-> Undefined],
   [id |-> "p1", performative |-> "inform",  inReplyTo |-> Undefined,  content |-> Undefined],
   [id |-> "f1", performative |-> "failure", inReplyTo |-> Some("r1"), content |-> Some("boom")],
   [id |-> "f1", performative |-> "failure", inReplyTo |-> Some("r2"), content |-> Undefined],
   [id |-> "f1", performative |-> "failure", inReplyTo |-> Some(""),   content |-> Undefined],
   [id |-> "q1", performative |-> "request", inReplyTo |-> Undefined,  content |-> Undefined]}

(* ---------------- state ---------------- *)
\* protocol        the default* fields set by the constructor
\* requests        requests[o]: the promise returned by the o-th initiateRequest
\*                 call (settled, value) and the PendingRequest object the call
\*                 created, which holds the promise's resolve / reject
\* pendingRequests the Map: request id -> index into requests, 0 when absent
\* timers          timers[o]: the setTimeout(handleTimeout) calls made for
\*                 request object o, oldest first; a handle of o is an index
\*                 into timers[o]; status is "armed", "fired" or "cleared"
\*                 history fields of requests[o], not fields of the object:
\*                 options (the options of the call), failures (the failure
\*                 replies handled for the entry), wasPending (the id was in
\*                 the table when the call was made)
\* retryDelays     retryDelays[o]: the retryRequest calls for o suspended in
\*                 `await new Promise(resolve => setTimeout(resolve, retryDelay))`
\* protoEvents     protoEvents[o]: the notifications emitted about request
\*                 object o, oldest first
\* received        ids of the messages a requestReceived notification was
\*                 emitted for
ProtocolConstructor(options) ==
  [defaultTimeout |-> OrElse(options.timeout, DefaultTimeout),
   defaultMaxRetries |-> OrElse(options.maxRetries, DefaultMaxRetries),
   defaultRetryDelay |-> OrElse(options.retryDelay, DefaultRetryDelay)]

ProtoStart(options) ==
  /\ protocol = ProtocolConstructor(options)
  /\ requests = <<>>
  /\ pendingRequests = [i \in ReqIds |-> 0]
  /\ timers = <<>>
  /\ retryDelays = <<>>
  /\ protoEvents = <<>>
  /\ received = {}

PEvent(name, a, b) == [name |-> name, a |-> a, b |-> b]

EmitFor(o, name, a, b) == [protoEvents EXCEPT ![o] = Append(@, PEvent(name, a, b))]

\* setTimeout(() => this.handleTimeout(id), duration) made for request object o
ArmTimer(ts, o, duration) == [ts EXCEPT ![o] = Append(@, [status |-> "armed", duration |-> duration])]

\* clearTimeout(handle) for a handle of request object o: no effect on a timer
\* that fired or was cleared before
ClearTimer(ts, o, handle) ==
  IF handle # Undefined /\ ts[o][handle[1]].status = "armed"
  THEN [ts EXCEPT ![o][handle[1]].status = "cleared"]
  ELSE ts

\* resolve / reject of a promise: only the first settlement counts
Settle(rs, o, outcome, value) ==
  IF rs[o].settled = "pending"
  THEN [rs EXCEPT ![o].settled = outcome, ![o].value = value]
  ELSE rs

(* ---------------- operations ---------------- *)
\* mutant: the performative of the message is not checked
initiateRequest_unchecked(message, options) ==
  /\ UNCHANGED <<convVars, coreVars>>
  /\ Len(requests) < Cardinality(Callers)
  /\ LET timeout == OrElse(options.timeout, protocol.defaultTimeout)
         maxRetries == OrElse(options.maxRetries, protocol.defaultMaxRetries)
         retryDelay == OrElse(options.retryDelay, protocol.defaultRetryDelay)
     IN /\ requests' = Append(requests,
              [id |-> message.id, retries |-> 0, maxRetries |-> maxRetries,
               retryDelay |-> retryDelay,
               timeout |-> IF timeout > 0 THEN Some(1) ELSE Undefined,
               settled |-> "pending", value |-> "",
               options |-> options,
               failures |-> 0, wasPending |-> pendingRequests[message.id] # 0])
        /\ timers' = Append(timers, IF timeout > 0
                                    THEN <<[status |-> "armed", duration |-> timeout]>>
                                    ELSE <<>>)
        /\ retryDelays' = Append(retryDelays, 0)
        /\ pendingRequests' = [pendingRequests EXCEPT ![message.id] = Len(requests) + 1]
        /\ protoEvents' = Append(protoEvents, <<PEvent("requestInitiated", message.id, "")>>)
        /\ UNCHANGED <<protocol, received>>

initiateRequest(message, options) ==
  /\ UNCHANGED <<convVars, coreVars>>
  /\ Len(requests) < Cardinality(Callers)
  /\ IF message.performative # "request"
     THEN \* the async function throws: the promise it returns is rejected
          /\ requests' = Append(requests,
                [id |-> message.id, retries |-> 0, maxRetries |-> 0, retryDelay |-> 0,
                 timeout |-> Undefined, settled |-> "rejected",
                 value |-> "Message must have performative request", options |-> options,
                 failures |-> 0, wasPending |-> pendingRequests[message.id] # 0])
          /\ timers' = Append(timers, <<>>)
          /\ retryDelays' = Append(retryDelays, 0)
          /\ protoEvents' = Append(protoEvents, <<>>)
          /\ UNCHANGED <<protocol, pendingRequests, received>>
     ELSE /\ LET timeout == OrElse(options.timeout, protocol.defaultTimeout)
                 maxRetries == OrElse(options.maxRetries, protocol.defaultMaxRetries)
                 retryDelay == OrElse(options.retryDelay, protocol.defaultRetryDelay)
             IN /\ requests' = Append(requests,
                      [id |-> message.id, retries |-> 0, maxRetries |-> maxRetries,
                       retryDelay |-> retryDelay,
                       timeout |-> IF timeout > 0 THEN Some(1) ELSE Undefined,
                       settled |-> "pending", value |-> "",
                       options |-> options,
                       failures |-> 0, wasPending |-> pendingRequests[message.id] # 0])
                /\ timers' = Append(timers, IF timeout > 0
                                            THEN <<[status |-> "armed", duration |-> timeout]>>
                                            ELSE <<>>)
                /\ retryDelays' = Append(retryDelays, 0)
                /\ pendingRequests' = [pendingRequests EXCEPT ![message.id] = Len(requests) + 1]
                /\ protoEvents' = Append(protoEvents, <<PEvent("requestInitiated", message.id, "")>>)
                /\ UNCHANGED <<protocol, received>>

\* mutant: the timer is cleared but the entry is not deleted
clearPendingRequest_keepEntry(ts, requestId) ==
  /\ timers' = ClearTimer(ts, pendingRequests[requestId], requests[pendingRequests[requestId]].timeout)
  /\ pendingRequests' = pendingRequests

\* mutant: the entry is deleted but its timer is not cleared
clearPendingRequest_keepTimer(ts, requestId) ==
  /\ timers' = ts
  /\ pendingRequests' = [pendingRequests EXCEPT ![requestId] = 0]

\* mutant: the whole table is cleared, not only the entry of requestId
clearPendingRequest_all(ts, requestId) ==
  /\ timers' = ClearTimer(ts, pendingRequests[requestId], requests[pendingRequests[requestId]].timeout)
  /\ pendingRequests' = [r \in ReqIds |-> 0]

\* clearPendingRequest(requestId) for a pending id, applied to the timers ts
clearPendingRequest(ts, requestId) ==
  /\ timers' = ClearTimer(ts, pendingRequests[requestId], requests[pendingRequests[requestId]].timeout)
  /\ pendingRequests' = [pendingRequests EXCEPT ![requestId] = 0]

\* mutant: the retry leaves the entry's current timer armed
retryRequest_keepTimer(rs, ts, o) ==
  /\ requests' = [rs EXCEPT ![o].retries = @ + 1]
  /\ timers' = ts
  /\ retryDelays' = [retryDelays EXCEPT ![o] = @ + 1]
  /\ UNCHANGED <<pendingRequests, protoEvents>>

\* mutant: the retry is started but not counted
retryRequest_noCount(rs, ts, o) ==
  /\ requests' = rs
  /\ timers' = ClearTimer(ts, o, requests[o].timeout)
  /\ retryDelays' = [retryDelays EXCEPT ![o] = @ + 1]
  /\ UNCHANGED <<pendingRequests, protoEvents>>

\* retryRequest(pendingRequest) up to its await, applied to the request
\* objects rs and the timers ts
retryRequest(rs, ts, o) ==
  /\ requests' = [rs EXCEPT ![o].retries = @ + 1]
  /\ timers' = ClearTimer(ts, o, requests[o].timeout)
  /\ retryDelays' = [retryDelays EXCEPT ![o] = @ + 1]
  /\ UNCHANGED <<pendingRequests, protoEvents>>

\* mutant: after the delay the request is announced again as a new one
RetryDelayElapses_reinitiates(o) ==
  /\ UNCHANGED <<convVars, coreVars>>
  /\ o \in DOMAIN requests
  /\ retryDelays[o] > 0
  /\ retryDelays' = [retryDelays EXCEPT ![o] = @ - 1]
  /\ IF protocol.defaultTimeout > 0
     THEN /\ timers' = ArmTimer(timers, o, protocol.defaultTimeout)
          /\ requests' = [requests EXCEPT ![o].timeout = Some(Len(timers[o]) + 1)]
     ELSE UNCHANGED <<timers, requests>>
  /\ protoEvents' = [protoEvents EXCEPT ![o] = @ \o <<PEvent("requestInitiated", requests[o].id, ""),
                                                      PEvent("requestRetry", requests[o].id, requests[o].retries)>>]
  /\ UNCHANGED <<protocol, pendingRequests, received>>

\* mutant: after the delay the timer is armed with the timeout the request was
\* initiated with
RetryDelayElapses_requestTimeout(o) ==
  /\ UNCHANGED <<convVars, coreVars>>
  /\ o \in DOMAIN requests
  /\ retryDelays[o] > 0
  /\ retryDelays' = [retryDelays EXCEPT ![o] = @ - 1]
  /\ IF OrElse(requests[o].options.timeout, protocol.defaultTimeout) > 0
     THEN /\ timers' = ArmTimer(timers, o, OrElse(requests[o].options.timeout, protocol.defaultTimeout))
          /\ requests' = [requests EXCEPT ![o].timeout = Some(Len(timers[o]) + 1)]
     ELSE UNCHANGED <<timers, requests>>
  /\ protoEvents' = EmitFor(o, "requestRetry", requests[o].id, requests[o].retries)
  /\ UNCHANGED <<protocol, pendingRequests, received>>

\* retryRequest(pendingRequest) after its await: the retry delay has elapsed
RetryDelayElapses(o) ==
  /\ UNCHANGED <<convVars, coreVars>>
  /\ o \in DOMAIN requests
  /\ retryDelays[o] > 0
  /\ retryDelays' = [retryDelays EXCEPT ![o] = @ - 1]
  /\ IF protocol.defaultTimeout > 0
     THEN /\ timers' = ArmTimer(timers, o, protocol.defaultTimeout)
          /\ requests' = [requests EXCEPT ![o].timeout = Some(Len(timers[o]) + 1)]
     ELSE UNCHANGED <<timers, requests>>
  /\ protoEvents' = EmitFor(o, "requestRetry", requests[o].id, requests[o].retries)
  /\ UNCHANGED <<protocol, pendingRequests, received>>

Ignored == UNCHANGED <<requests, pendingRequests, timers, retryDelays, protoEvents>>

\* mutant: the reply resolves the promise but the entry stays in the table
handleResponse_keepEntry(message) ==
  IF ~TruthyStr(message.inReplyTo) THEN Ignored
  ELSE IF pendingRequests[message.inReplyTo[1]] = 0 THEN Ignored
  ELSE LET o == pendingRequests[message.inReplyTo[1]]
       IN /\ timers' = ClearTimer(timers, o, requests[o].timeout)
          /\ pendingRequests' = pendingRequests
          /\ requests' = Settle(requests, o, "resolved", message.id)
          /\ protoEvents' = EmitFor(o, "responseReceived", message.id, requests[o].id)
          /\ UNCHANGED retryDelays

\* mutant: a reply that matches no entry is given to some pending entry
handleResponse_uncorrelated(message) ==
  IF ~TruthyStr(message.inReplyTo) THEN Ignored
  ELSE IF \A r \in ReqIds : pendingRequests[r] = 0 THEN Ignored
  ELSE LET requestId == IF pendingRequests[message.inReplyTo[1]] # 0
                        THEN message.inReplyTo[1]
                        ELSE CHOOSE r \in ReqIds : pendingRequests[r] # 0
           o == pendingRequests[requestId]
       IN /\ clearPendingRequest(timers, requestId)
          /\ requests' = Settle(requests, o, "resolved", message.id)
          /\ protoEvents' = EmitFor(o, "responseReceived", message.id, requests[o].id)
          /\ UNCHANGED retryDelays

handleResponse(message) ==
  IF ~TruthyStr(message.inReplyTo) THEN Ignored
  ELSE IF pendingRequests[message.inReplyTo[1]] = 0 THEN Ignored
  ELSE LET o == pendingRequests[message.inReplyTo[1]]
       IN /\ clearPendingRequest(timers, message.inReplyTo[1])
          /\ requests' = Settle(requests, o, "resolved", message.id)
          /\ protoEvents' = EmitFor(o, "responseReceived", message.id, requests[o].id)
          /\ UNCHANGED retryDelays

\* mutant: a failure reply starts a retry without comparing the retry count
\* with the maximum
handleFailure_alwaysRetries(message) ==
  IF ~TruthyStr(message.inReplyTo) THEN Ignored
  ELSE IF pendingRequests[message.inReplyTo[1]] = 0 THEN Ignored
  ELSE LET o == pendingRequests[message.inReplyTo[1]]
           counted == [requests EXCEPT ![o].failures = @ + 1]
       IN IF requests[o].retries < DefaultMaxRetries
          THEN retryRequest(counted, timers, o)
          ELSE Ignored

handleFailure(message) ==
  IF ~TruthyStr(message.inReplyTo) THEN Ignored
  ELSE IF pendingRequests[message.inReplyTo[1]] = 0 THEN Ignored
  ELSE LET o == pendingRequests[message.inReplyTo[1]]
           error == IF TruthyStr(message.content) THEN message.content[1] ELSE "Request failed"
           counted == [requests EXCEPT ![o].failures = @ + 1]
       IN IF requests[o].retries < requests[o].maxRetries
          THEN retryRequest(counted, timers, o)
          ELSE /\ clearPendingRequest(timers, message.inReplyTo[1])
               /\ requests' = Settle(counted, o, "rejected", error)
               /\ protoEvents' = EmitFor(o, "requestFailed", message.id, error)
               /\ UNCHANGED retryDelays

handleRequest(message) ==
  /\ received' = received \cup {message.id}
  /\ UNCHANGED <<requests, pendingRequests, timers, retryDelays, protoEvents>>

handleMessageWithConversation(message) ==
  /\ UNCHANGED <<convVars, coreVars>>
  /\ IF message.performative = "inform" /\ TruthyStr(message.inReplyTo)
     THEN handleResponse(message) /\ UNCHANGED received
     ELSE IF message.performative = "request"
     THEN handleRequest(message)
     ELSE IF message.performative = "failure" /\ TruthyStr(message.inReplyTo)
     THEN handleFailure(message) /\ UNCHANGED received
     ELSE Ignored /\ UNCHANGED received
  /\ UNCHANGED protocol

\* the Message that handleMessage builds from the fields of an ACPMessage
InternalMessage(message) ==
  [id |-> IF message.id # "" THEN message.id ELSE "uuid",
   performative |-> message.performative,
   inReplyTo |-> message.inReplyTo,
   content |-> message.content]

handleMessage(message) ==
  /\ UNCHANGED <<convVars, coreVars>>
  /\ IF message.performative = "inform" /\ TruthyStr(message.inReplyTo)
     THEN handleResponse(InternalMessage(message))
     ELSE IF message.performative = "failure" /\ TruthyStr(message.inReplyTo)
     THEN handleFailure(InternalMessage(message))
     ELSE Ignored
  /\ UNCHANGED <<protocol, received>>

\* mutant: the timer callback acts on the request object it was armed for,
\* without looking its id up in the table
handleTimeout_noLookup(o, k) ==
  /\ UNCHANGED <<convVars, coreVars>>
  /\ o \in DOMAIN timers
  /\ k \in DOMAIN timers[o]
  /\ timers[o][k].status = "armed"
  /\ LET requestId == requests[o].id
         fired == [timers EXCEPT ![o][k].status = "fired"]
     IN IF requests[o].retries < requests[o].maxRetries
        THEN retryRequest(requests, fired, o)
        ELSE /\ timers' = ClearTimer(fired, o, requests[o].timeout)
             /\ pendingRequests' = IF pendingRequests[requestId] = o
                                   THEN [pendingRequests EXCEPT ![requestId] = 0]
                                   ELSE pendingRequests
             /\ requests' = Settle(requests, o, "rejected", "Request timeout")
             /\ protoEvents' = EmitFor(o, "requestTimeout", requests[o].id, "Request timeout")
             /\ UNCHANGED retryDelays
  /\ UNCHANGED <<protocol, received>>

\* armed timer k of request object o fires and runs handleTimeout(id)
handleTimeout(o, k) ==
  /\ UNCHANGED <<convVars, coreVars>>
  /\ o \in DOMAIN timers
  /\ k \in DOMAIN timers[o]
  /\ timers[o][k].status = "armed"
  /\ LET requestId == requests[o].id
         cur == pendingRequests[requestId]
         fired == [timers EXCEPT ![o][k].status = "fired"]
     IN IF cur = 0
        THEN /\ timers' = fired
             /\ UNCHANGED <<requests, pendingRequests, retryDelays, protoEvents>>
        ELSE IF requests[cur].retries < requests[cur].maxRetries
        THEN retryRequest(requests, fired, cur)
        ELSE /\ clearPendingRequest(fired, requestId)
             /\ requests' = Settle(requests, cur, "rejected", "Request timeout")
             /\ protoEvents' = EmitFor(cur, "requestTimeout", requests[cur].id, "Request timeout")
             /\ UNCHANGED retryDelays
  /\ UNCHANGED <<protocol, received>>

\* the value cancelRequest(requestId) returns
cancelRequest_returns(requestId) == pendingRequests[requestId] # 0

\* mutant: cancelling a request also cancels the conversation
cancelRequest_cancelsConversation(requestId) ==
  /\ conv' = IF conv.created /\ pendingRequests[requestId] # 0
             THEN [conv EXCEPT !.state = "cancelled"]
             ELSE conv
  /\ UNCHANGED <<convTimers, deadlinePassed, convEvents, convErr, coreVars>>
  /\ IF pendingRequests[requestId] # 0
     THEN LET o == pendingRequests[requestId]
          IN /\ clearPendingRequest(timers, requestId)
             /\ requests' = Settle(requests, o, "rejected", "Request cancelled")
             /\ protoEvents' = EmitFor(o, "requestCancelled", requests[o].id, "")
     ELSE UNCHANGED <<requests, pendingRequests, timers, protoEvents>>
  /\ UNCHANGED <<protocol, retryDelays, received>>

\* mutant: the entry is cleared and the notification emitted, but the promise
\* is left unsettled
cancelRequest_noReject(requestId) ==
  /\ UNCHANGED <<convVars, coreVars>>
  /\ IF pendingRequests[requestId] # 0
     THEN LET o == pendingRequests[requestId]
          IN /\ clearPendingRequest(timers, requestId)
             /\ requests' = requests
             /\ protoEvents' = EmitFor(o, "requestCancelled", requests[o].id, "")
     ELSE UNCHANGED <<requests, pendingRequests, timers, protoEvents>>
  /\ UNCHANGED <<protocol, retryDelays, received>>

cancelRequest(requestId) ==
  /\ UNCHANGED <<convVars, coreVars>>
  /\ IF pendingRequests[requestId] # 0
     THEN LET o == pendingRequests[requestId]
          IN /\ clearPendingRequest(timers, requestId)
             /\ requests' = Settle(requests, o, "rejected", "Request cancelled")
             /\ protoEvents' = EmitFor(o, "requestCancelled", requests[o].id, "")
     ELSE UNCHANGED <<requests, pendingRequests, timers, protoEvents>>
  /\ UNCHANGED <<protocol, retryDelays, received>>

\* this.pendingRequests.size
getPendingRequestCount == Cardinality({r \in ReqIds : pendingRequests[r] # 0})

hasPendingRequests == getPendingRequestCount > 0

getCurrentState == IF getPendingRequestCount = 0 THEN "idle" ELSE "waiting"

\* cancelAllRequests(): cancelRequest(id) for every key the table holds at the
\* call; the cancellations touch different entries, so they are taken together
cancelAllRequests ==
  /\ UNCHANGED <<convVars, coreVars>>
  /\ LET requestIds == {r \in ReqIds : pendingRequests[r] # 0}
         cancelled == {pendingRequests[r] : r \in requestIds}
     IN /\ pendingRequests' = [r \in ReqIds |-> 0]
        /\ timers' = [o \in 1..Len(timers) |->
                        IF o \in cancelled
                        THEN ClearTimer(timers, o, requests[o].timeout)[o]
                        ELSE timers[o]]
        /\ requests' = [o \in 1..Len(requests) |->
                          IF o \in cancelled
                          THEN Settle(requests, o, "rejected", "Request cancelled")[o]
                          ELSE requests[o]]
        /\ protoEvents' = [o \in 1..Len(protoEvents) |->
                             IF o \in cancelled
                             THEN Append(protoEvents[o], PEvent("requestCancelled", requests[o].id, ""))
                             ELSE protoEvents[o]]
  /\ UNCHANGED <<protocol, retryDelays, received>>

ProtoNext ==
  \/ \E i \in CallInputs(Len(requests) + 1) : initiateRequest(i.message, i.options)
  \/ \E o \in 1..Len(timers) : \E k \in 1..Len(timers[o]) : handleTimeout(o, k)
  \/ \E m \in InboundInputs : handleMessageWithConversation(m)
  \/ \E m \in InboundInputs : handleMessage(m)
  \/ \E o \in 1..Len(requests) : RetryDelayElapses(o)
  \/ cancelAllRequests
  \/ \E r \in ReqIds : cancelRequest(r)

(* ======================= Message ======================= *)
(* ---------------- inputs ---------------- *)
\* a receiver is a string or an array of strings
Str(s) == [isArray |-> FALSE, items |-> <<s>>]

Arr(seq) == [isArray |-> TRUE, items |-> seq]

\* options of new Message(options): an empty id, sender or performative stands
\* for an absent one as well (the code tests them with || and !)
MessageOptionInputs ==
  {[id |-> id, performative |-> p, sender |-> s, receiver |-> r, content |-> Some("hello"),
    conversationId |-> c, inReplyTo |-> i] :
     id \in {"", "r1"}, p \in {"", "request", "custom"}, s \in {"", "A"},
     r \in {Str(""), Str("B"), Arr(<<>>), Arr(<<"B", "C">>)},
     c \in {Undefined, Some(""), Some(ConvId)},
     i \in {Undefined, Some(""), Some("m0")}}

\* arguments of message.createReply(content, performative, options)
ReplyInputs ==
  {[content |-> Some("ok"), performative |-> p, options |-> [sender |-> s]] :
     p \in {Undefined, Some("agree")}, s \in {Undefined, Some(""), Some("B")}}

\* arguments of createResponse(request, content, sender) and of
\* createFailure(request, error, sender)
ResponseInputs ==
  {[content |-> c, sender |-> s] : c \in {Undefined, Some("boom")}, s \in {"", "B"}}

(* ---------------- state ---------------- *)
\* built      the Message built by new Message(options), created = FALSE
\*            while none was built
\* reply      the Message last built from it by createReply, createResponse
\*            or createFailure
\* msgErr     the error the last of these calls threw, "" when it returned
\* msgWarned  the last call wrote the unknown-performative warning
NoMessage ==
  [created |-> FALSE, id |-> "", performative |-> "", sender |-> "", receiver |-> Str(""),
   content |-> Undefined, conversationId |-> Undefined, inReplyTo |-> Undefined]

MessageStart ==
  /\ built = NoMessage
  /\ reply = NoMessage
  /\ msgErr = ""
  /\ msgWarned = FALSE

(* ---------------- operations ---------------- *)
\* the performatives validate() knows
validPerformatives ==
  {"accept-proposal", "agree", "cancel", "cfp", "confirm", "disconfirm",
   "failure", "inform", "inform-if", "inform-ref", "not-understood",
   "propose", "query-if", "query-ref", "refuse", "reject-proposal",
   "request", "request-when", "request-whenever", "subscribe"}

\* the fields the constructor assigns before it validates; every generated
\* id is written "uuid"
Message(options) ==
  [created |-> TRUE,
   id |-> IF options.id # "" THEN options.id ELSE "uuid",
   performative |-> options.performative,
   sender |-> options.sender,
   receiver |-> options.receiver,
   content |-> options.content,
   conversationId |-> options.conversationId,
   inReplyTo |-> options.inReplyTo]

\* mutant: an empty receiver array is not rejected
validate_anyArray(m) ==
  IF m.performative = "" THEN "Performative is required"
  ELSE IF m.sender = "" THEN "Sender is required"
  ELSE IF ~m.receiver.isArray /\ m.receiver.items[1] = "" THEN "Receiver is required"
  ELSE ""

\* the error validate() throws, "" when it returns
validate(m) ==
  IF m.performative = "" THEN "Performative is required"
  ELSE IF m.sender = "" THEN "Sender is required"
  ELSE IF ~m.receiver.isArray /\ m.receiver.items[1] = "" THEN "Receiver is required"
  ELSE IF m.receiver.isArray /\ Len(m.receiver.items) = 0 THEN "Message receiver array cannot be empty"
  ELSE ""

\* validate() reaches its last statement and the performative is not known
Warns(m) == validate(m) = "" /\ m.performative \notin validPerformatives

isReplyTo(m, messageId) == m.inReplyTo = Some(messageId)

isReply(m) == TruthyStr(m.inReplyTo)

\* mutant: the reply is addressed to the receiver of the message
createReplyOptions_sameReceiver(m, content, performative, options) ==
  [id |-> "",
   performative |-> IF performative = Undefined THEN "inform" ELSE performative[1],
   sender |-> IF TruthyStr(options.sender) THEN options.sender[1] ELSE "",
   receiver |-> m.receiver,
   content |-> content,
   conversationId |-> IF TruthyStr(m.conversationId) THEN m.conversationId ELSE Undefined,
   inReplyTo |-> Some(m.id)]

\* the options createReply hands to the constructor
createReplyOptions(m, content, performative, options) ==
  [id |-> "",
   performative |-> IF performative = Undefined THEN "inform" ELSE performative[1],
   sender |-> IF TruthyStr(options.sender) THEN options.sender[1] ELSE "",
   receiver |-> Str(m.sender),
   content |-> content,
   conversationId |-> IF TruthyStr(m.conversationId) THEN m.conversationId ELSE Undefined,
   inReplyTo |-> Some(m.id)]

\* the options the protocol's createResponse hands to the constructor
createResponseOptions(request, content, sender) ==
  [id |-> "", performative |-> "inform", sender |-> sender, receiver |-> Str(request.sender),
   content |-> content, conversationId |-> request.conversationId, inReplyTo |-> Some(request.id)]

\* the options the protocol's createFailure hands to the constructor
createFailureOptions(request, error, sender) ==
  [id |-> "", performative |-> "failure", sender |-> sender, receiver |-> Str(request.sender),
   content |-> error, conversationId |-> request.conversationId, inReplyTo |-> Some(request.id)]

\* new Message(options): the one message of a behaviour
NewMessage(options) ==
  /\ UNCHANGED <<convVars, protoVars, agentVars>>
  /\ ~built.created
  /\ msgErr' = validate(Message(options))
  /\ msgWarned' = Warns(Message(options))
  /\ built' = IF validate(Message(options)) = "" THEN Message(options) ELSE built
  /\ UNCHANGED reply

\* a call that builds a reply to the message from the constructor options o
BuildReply(o) ==
  /\ UNCHANGED <<convVars, protoVars, agentVars>>
  /\ built.created
  /\ msgErr' = validate(Message(o))
  /\ msgWarned' = Warns(Message(o))
  /\ reply' = IF validate(Message(o)) = "" THEN Message(o) ELSE reply
  /\ UNCHANGED built

\* built.createReply(content, performative, options)
createReply(content, performative, options) ==
  BuildReply(createReplyOptions(built, content, performative, options))

\* protocol.createResponse(built, content, sender)
createResponse(content, sender) ==
  BuildReply(createResponseOptions(built, content, sender))

\* protocol.createFailure(built, error, sender)
createFailure(error, sender) ==
  BuildReply(createFailureOptions(built, error, sender))

\* protocol.initiateRequest(built, conversation, options) for the message
\* built before, when its id is one of the ids the table is explored with
InitiateMessage ==
  /\ built.created
  /\ built.id \in ReqIds
  /\ requests = <<>>
  /\ initiateRequest([id |-> built.id, performative |-> built.performative],
                     [timeout |-> Undefined, maxRetries |-> Undefined, retryDelay |-> Undefined])

\* the reply built before comes in and is handed to the protocol
DeliverReply ==
  /\ reply.created
  /\ built.id \in ReqIds
  /\ handleMessageWithConversation(reply)

MessageNext ==
  \/ \E options \in MessageOptionInputs : NewMessage(options)
  \/ \E i \in ReplyInputs : createReply(i.content, i.performative, i.options)
  \/ \E i \in ResponseInputs : createResponse(i.content, i.sender)
  \/ \E i \in ResponseInputs : createFailure(i.content, i.sender)
  \/ InitiateMessage
  \/ DeliverReply
  \/ \E o \in 1..Len(timers) : \E k \in 1..Len(timers[o]) : handleTimeout(o, k)
  \/ \E o \in 1..Len(requests) : RetryDelayElapses(o)

(* ======================= Agent ======================= *)
(* ---------------- inputs ---------------- *)
AgentId == "agent1"

\* the callers of Agent.handleMessage: each makes one call
AgentCallers == {1, 2}

\* the performatives a handler is registered for with onMessage
HandlerInputs == {"request", "*"}

\* the messages handed to Agent.handleMessage
AgentMessageInputs ==
  {Message([id |-> "r1", performative |-> p, sender |-> "B", receiver |-> Str(AgentId),
            content |-> Some("hello"), conversationId |-> c, inReplyTo |-> Undefined]) :
     p \in {"request", "inform", "ping"}, c \in {Undefined, Some(ConvId)}}
  \cup
  {Message([id |-> "q1", performative |-> "query-ref", sender |-> "B", receiver |-> Str(AgentId),
            content |-> Some(c), conversationId |-> Undefined, inReplyTo |-> Undefined]) :
     c \in {"capabilities", "hello"}}

(* ---------------- state ---------------- *)
\* agent  the fields of the Agent: status, the performatives a handler is
\*        registered for (handlers), whether an 'error' listener is
\*        registered, the message ids tracked per conversation, and the
\*        notifications emitted, oldest first
\* calls  calls[c]: the c-th handleMessage call: its message, where it is
\*        ("await": suspended in an await, "ended"), what it awaits, and
\*        how its promise was settled
\* sent   the messages handed to sendMessage, oldest first
AEvent(name, a, b) == [name |-> name, a |-> a, b |-> b]

\* new Agent(options): the default handlers are registered by the constructor
AgentConstructor(options) ==
  [id |-> IF options.id # "" THEN options.id ELSE "uuid",
   status |-> "offline",
   handlers |-> {"ping", "query-ref"},
   errorListener |-> FALSE,
   conversations |-> [c \in {ConvId} |-> <<>>],
   events |-> <<>>]

AgentStart ==
  /\ agent = AgentConstructor([id |-> AgentId, name |-> "agent"])
  /\ calls = <<>>
  /\ sent = <<>>

(* ---------------- operations ---------------- *)
setStatus(a, status) ==
  [a EXCEPT !.status = status,
            !.events = IF a.status # status
                       THEN Append(@, AEvent("statusChanged", status, a.status))
                       ELSE @]

\* the conversation tracking at the head of handleMessage and sendMessage
Track(a, m) ==
  IF TruthyStr(m.conversationId)
  THEN [a EXCEPT !.conversations[m.conversationId[1]] = Append(@, m.id)]
  ELSE a

\* sendMessage(m), applied to w = [agent, sent]
sendMessage(w, m) ==
  [agent |-> [Track(w.agent, m) EXCEPT !.events = Append(@, AEvent("messageSent", m.id, ""))],
   sent |-> Append(w.sent, m)]

\* where a handleMessage call stands after a run: suspended in an await of
\* `awaited`, or ended with its promise resolved or rejected
Suspended(w, awaited) ==
  [w |-> w, pc |-> "await", handler |-> awaited, outcome |-> "pending", error |-> ""]

Ended(w, outcome, error) ==
  [w |-> w, pc |-> "ended", handler |-> "", outcome |-> outcome, error |-> error]

\* the catch block of handleMessage for message m and the caught error:
\* emit('error') throws when no 'error' listener is registered; the reply to
\* a request is built by createReply with the description object as content
Catch(w, m, error) ==
  IF ~w.agent.errorListener THEN Ended(w, "rejected", error)
  ELSE LET w1 == [w EXCEPT !.agent.events = Append(@, AEvent("error", error, ""))]
           o == createReplyOptions(m, Some("failure description"), Undefined, [sender |-> Undefined])
       IN IF m.performative # "request" THEN Ended(w1, "resolved", "")
          ELSE IF validate(Message(o)) # "" THEN Ended(w1, "rejected", validate(Message(o)))
          ELSE Suspended(sendMessage(w1, Message(o)), "send")

\* a registered handler called with m, up to its first await: the default
\* handlers for ping and query-ref, or a handler registered with onMessage
RunHandler(w, m, h) ==
  IF h = "ping"
  THEN LET o == createReplyOptions(m, Some("status"), Some("pong"), [sender |-> Some(w.agent.id)])
       IN IF validate(Message(o)) # "" THEN Catch(w, m, validate(Message(o)))
          ELSE Suspended(sendMessage(w, Message(o)), "ping")
  ELSE IF h = "query-ref"
  THEN LET o == createReplyOptions(m, Some("capabilities list"), Some("inform"), [sender |-> Some(w.agent.id)])
       IN IF m.content # Some("capabilities") THEN Suspended(w, "query-ref")
          ELSE IF validate(Message(o)) # "" THEN Catch(w, m, validate(Message(o)))
          ELSE Suspended(sendMessage(w, Message(o)), "query-ref")
  ELSE Suspended(w, "user")

\* the try block of handleMessage after messageReceived, up to its first
\* await: the not-understood reply is built by createReply with the
\* description object as content
Dispatch(w, m) ==
  IF m.performative \in w.agent.handlers THEN RunHandler(w, m, m.performative)
  ELSE IF "*" \in w.agent.handlers THEN RunHandler(w, m, "*")
  ELSE IF m.performative = "request"
  THEN LET o == createReplyOptions(m, Some("not-understood description"), Undefined, [sender |-> Undefined])
       IN IF validate(Message(o)) # "" THEN Catch(w, m, validate(Message(o)))
          ELSE Suspended(sendMessage(w, Message(o)), "send")
  ELSE Ended(w, "resolved", "")

\* mutant: the status is reset only when the call ends without an error
finally_onSuccess(r) ==
  IF r.pc = "ended" /\ r.outcome = "resolved"
  THEN [r EXCEPT !.w.agent = setStatus(@, "idle")]
  ELSE r

\* the finally block, run when the call ends
finally(r) ==
  IF r.pc = "ended" THEN [r EXCEPT !.w.agent = setStatus(@, "idle")] ELSE r

CallRecord(m, r) ==
  [message |-> m, pc |-> r.pc, handler |-> r.handler, outcome |-> r.outcome, error |-> r.error]

\* agent.start()
start ==
  /\ UNCHANGED <<convVars, protoVars, messageVars>>
  /\ agent.status = "offline"
  /\ agent' = [agent EXCEPT !.status = "idle",
                            !.events = @ \o <<AEvent("statusChanged", "idle", ""), AEvent("started", "", "")>>]
  /\ UNCHANGED <<calls, sent>>

\* agent.onMessage(performative, handler)
onMessage(performative) ==
  /\ UNCHANGED <<convVars, protoVars, messageVars>>
  /\ performative \notin agent.handlers
  /\ agent' = [agent EXCEPT !.handlers = @ \cup {performative}]
  /\ UNCHANGED <<calls, sent>>

\* agent.on('error', listener)
onError ==
  /\ UNCHANGED <<convVars, protoVars, messageVars>>
  /\ ~agent.errorListener
  /\ agent' = [agent EXCEPT !.errorListener = TRUE]
  /\ UNCHANGED <<calls, sent>>

\* agent.handleMessage(m) up to its first await, or to its end when it does
\* not await
agentHandleMessage(m) ==
  /\ UNCHANGED <<convVars, protoVars, messageVars>>
  /\ Len(calls) < Cardinality(AgentCallers)
  /\ LET busy == Track(setStatus(agent, "busy"), m)
         w == [agent |-> [busy EXCEPT !.events = Append(@, AEvent("messageReceived", m.id, ""))],
               sent |-> sent]
         r == finally(Dispatch(w, m))
     IN /\ agent' = r.w.agent
        /\ sent' = r.w.sent
        /\ calls' = Append(calls, CallRecord(m, r))

\* the promise call c awaits is settled and the call runs on: a handler
\* registered with onMessage may fail (ok = FALSE), the default handlers and
\* sendMessage do not
HandlerSettles(c, ok) ==
  /\ UNCHANGED <<convVars, protoVars, messageVars>>
  /\ c \in DOMAIN calls
  /\ calls[c].pc = "await"
  /\ ok \/ calls[c].handler = "user"
  /\ LET w == [agent |-> agent, sent |-> sent]
         r == finally(IF ok THEN Ended(w, "resolved", "")
                      ELSE Catch(w, calls[c].message, "handler failed"))
     IN /\ agent' = r.w.agent
        /\ sent' = r.w.sent
        /\ calls' = [calls EXCEPT ![c] = CallRecord(calls[c].message, r)]

AgentNext ==
  \/ start
  \/ \E p \in HandlerInputs : onMessage(p)
  \/ onError
  \/ \E m \in AgentMessageInputs : agentHandleMessage(m)
  \/ \E c \in 1..Len(calls) : \E ok \in BOOLEAN : HandlerSettles(c, ok)

(* ======================= specifications ======================= *)
\* a conversation on its own (the protocol idle), and the protocol on its own
\* (no conversation constructed)
IdleProtocolOptions == [timeout |-> Some(50), maxRetries |-> Some(1), retryDelay |-> Some(10)]

ConvSpecInit ==
  /\ conv = NoConversation
  /\ convTimers = {}
  /\ deadlinePassed = FALSE
  /\ convEvents = <<>>
  /\ convErr = ""
  /\ ProtoStart(IdleProtocolOptions)
  /\ MessageStart
  /\ AgentStart

ConvSpec == ConvSpecInit /\ [][ConvNext]_vars

ProtoSpecInit ==
  /\ conv = NoConversation
  /\ convTimers = {}
  /\ deadlinePassed = FALSE
  /\ convEvents = <<>>
  /\ convErr = ""
  /\ \E options \in ProtocolOptionInputs : ProtoStart(options)
  /\ MessageStart
  /\ AgentStart

ProtoSpec == ProtoSpecInit /\ [][ProtoNext]_vars

\* the protocol when the event loop keeps running: every armed deadline timer
\* eventually fires unless it is cleared, and every retry delay eventually
\* elapses; replies, cancellations and further calls may or may not come
TimerSlots == 1..(DefaultMaxRetries + 1)

ProtoFairSpec ==
  /\ ProtoSpecInit
  /\ [][ProtoNext]_vars
  /\ \A o \in Callers : \A k \in TimerSlots : WF_vars(handleTimeout(o, k))
  /\ \A o \in Callers : WF_vars(RetryDelayElapses(o))

\* a conversation with lifecycle, participant and metadata changes (all that
\* a context carries) that is serialized and rebuilt
CtxNext ==
  \/ \E o \in ConstructInputs : Construct(o.initiator, o.participants, o.timeout, o.maxMessages)
  \/ activate
  \/ setWaiting
  \/ \E r \in ResultInputs : complete(r)
  \/ \E e \in ErrorInputs : fail(e)
  \/ \E r \in ReasonInputs : cancel(r)
  \/ DeadlineElapses
  \/ \E a \in Agents : addParticipant(a)
  \/ \E a \in Agents : removeParticipant(a)
  \/ \E i \in MetadataInputs : setMetadata(i.key, i.value)
  \/ \E options \in FromContextOptionInputs : RoundTrip(options)

CtxSpec == ConvSpecInit /\ [][CtxNext]_vars

\* a conversation and a protocol side by side, as an agent holds them: the
\* conversation is built and used up to its first notification, the protocol
\* serves one initiateRequest call, in any interleaving
SystemNext ==
  \/ convEvents = <<>> /\ ConvNext
  \/ requests = <<>> /\ \E i \in CallInputs(Len(requests) + 1) : initiateRequest(i.message, i.options)
  \/ \E o \in 1..Len(timers) : \E k \in 1..Len(timers[o]) : handleTimeout(o, k)
  \/ \E m \in InboundInputs : handleMessageWithConversation(m)
  \/ \E m \in InboundInputs : handleMessage(m)
  \/ \E o \in 1..Len(requests) : RetryDelayElapses(o)
  \/ cancelAllRequests
  \/ \E r \in ReqIds : cancelRequest(r)

SystemSpec == ProtoSpecInit /\ [][SystemNext]_vars

\* a Message that is built, replied to with createReply, createResponse and
\* createFailure, sent as a request and answered with the reply
MessageSpec == ConvSpecInit /\ [][MessageNext]_vars

\* an agent that is started, given handlers and an error listener, and
\* handles two messages, one call possibly starting while the other awaits
AgentSpec == ConvSpecInit /\ [][AgentNext]_vars

(* ======================= Conversation claims ======================= *)
LifecycleCall ==
  \/ activate
  \/ setWaiting
  \/ \E r \in ResultInputs : complete(r)
  \/ \E e \in ErrorInputs : fail(e)
  \/ \E r \in ReasonInputs : cancel(r)

HasEvent(name, a, b) ==
  \E i \in 1..Len(convEvents) : convEvents[i] = [name |-> name, a |-> a, b |-> b]

CountEvents(name) == Cardinality({i \in 1..Len(convEvents) : convEvents[i].name = name})

\* C1: once the conversation is in completed, failed, cancelled or timeout,
\* every step (lifecycle call, deadline, anything else) leaves the state, the
\* result and the error as they were, and every lifecycle call raises an error.
C1_TerminalIsFinal ==
  [][ (conv.created /\ conv.state \in TerminalStates) =>
        /\ conv'.state = conv.state
        /\ conv'.result = conv.result
        /\ conv'.error = conv.error
        /\ (LifecycleCall => convErr' # "" /\ conv' = conv /\ convEvents' = convEvents) ]_vars

C1_Witness ==
  /\ conv.created
  /\ conv.state = "completed"
  /\ conv.result = Some("r1")
  /\ convErr = "Cannot fail conversation from terminal state"

\* C2 (as claimed): once the conversation is terminal no addMessage succeeds:
\* the message log and the id index never change again.
C2_NoAppendWhenTerminal ==
  [][ (conv.created /\ conv.state \in TerminalStates) =>
        /\ conv'.messages = conv.messages
        /\ conv'.messageIndex = conv.messageIndex ]_vars

\* C3 (as claimed): when the deadline of a conversation with a positive timeout
\* elapses while the conversation is in initiated, active or waiting, the
\* conversation moves to timeout.
C3_DeadlineAlwaysTimesOut ==
  [][ (conv.created /\ ~deadlinePassed /\ deadlinePassed' /\ conv.state \notin TerminalStates)
        => conv'.state = "timeout" ]_vars

\* no lifecycle call has changed the state: none of the per-state
\* notifications of activate, setWaiting, complete, fail, cancel was emitted
NoLifecycleTransition ==
  \A i \in 1..Len(convEvents) :
    convEvents[i].name \notin {"active", "waiting", "completed", "failed", "cancelled"}

\* C4: a conversation with a positive timeout on which no lifecycle operation
\* changed the state is in state timeout once its deadline has passed, and
\* exactly one stateChanged notification, (timeout, initiated), was emitted.
C4_UntouchedTimesOut ==
  (conv.created /\ deadlinePassed /\ NoLifecycleTransition) =>
     /\ conv.state = "timeout"
     /\ CountEvents("stateChanged") = 1
     /\ HasEvent("stateChanged", "timeout", "initiated")

C4_Witness ==
  /\ conv.created
  /\ deadlinePassed
  /\ NoLifecycleTransition
  /\ conv.state = "timeout"
  /\ conv.participants = <<"A", "B">>

\* C5: with maxMessages = N >= 1 the log never holds more than N messages; an
\* addMessage of an acceptable message appends while fewer than N are logged
\* and otherwise raises the capacity error and changes nothing.
C5_Capacity ==
  [][ /\ (conv'.created /\ TruthyNum(conv'.maxMessages) => Len(conv'.messages) <= conv'.maxMessages[1])
      /\ \A m \in MessageInputs :
           ( /\ conv.created
             /\ TruthyNum(conv.maxMessages)
             /\ (m.conversationId = Undefined \/ m.conversationId[1] = conv.id)
             /\ addMessage(m) )
           => IF Len(conv.messages) < conv.maxMessages[1]
              THEN conv'.messages = Append(conv.messages, m) /\ convErr' = ""
              ELSE conv' = conv /\ convErr' = "Maximum number of messages reached" ]_vars

C5_Witness ==
  /\ conv.created
  /\ conv.maxMessages = Some(1)
  /\ Len(conv.messages) = 1
  /\ convErr = "Maximum number of messages reached"

BadConstructInput(o) ==
  \/ o.initiator = ""
  \/ Len(o.participants) = 0
  \/ o.timeout # Undefined /\ o.timeout[1] <= 0
  \/ o.maxMessages # Undefined /\ o.maxMessages[1] <= 0

\* C7 (as claimed): construction with an empty initiator, no participants, or
\* a supplied timeout / maxMessages that is zero or negative raises an error
\* and yields neither a conversation nor a timer.
C7_ConstructRejectsNonPositive ==
  [][ \A o \in ConstructInputs :
        (BadConstructInput(o) /\ Construct(o.initiator, o.participants, o.timeout, o.maxMessages))
        => (convErr' # "" /\ ~conv'.created /\ convTimers' = {}) ]_vars

AllowedTransition(old, new) ==
  \/ old = "initiated" /\ new = "active"
  \/ old = "active" /\ new = "waiting"
  \/ old \notin TerminalStates /\ new \in TerminalStates

\* C8: every change of the lifecycle state is initiated -> active,
\* active -> waiting, or non-terminal -> terminal; activate succeeds only from
\* initiated and setWaiting only from active.
C8_OnlyAllowedTransitions ==
  [][ /\ (conv'.state # conv.state => AllowedTransition(conv.state, conv'.state))
      /\ (activate /\ conv.state # "initiated" => convErr' # "" /\ conv' = conv)
      /\ (setWaiting /\ conv.state # "active" => convErr' # "" /\ conv' = conv) ]_vars

C8_Witness ==
  /\ conv.created
  /\ conv.state = "cancelled"
  /\ HasEvent("stateChanged", "active", "initiated")
  /\ HasEvent("stateChanged", "waiting", "active")
  /\ HasEvent("stateChanged", "cancelled", "waiting")
  /\ convErr = "Cannot activate conversation"

(* ======================= RequestResponseProtocol claims ======================= *)
Last(seq) == seq[Len(seq)]

IsInformFor(m, id) == m.performative = "inform" /\ m.inReplyTo = Some(id)

\* C9: an inbound inform whose in-reply-to id is pending resolves the promise
\* of that entry with the id of that very message, deletes the entry, leaves
\* the timer named by the entry's handle not armed and emits, as the entry's
\* next notification, responseReceived(reply, request); whatever the retry
\* count and whether or not a retry delay is running.
C9_InformResolves ==
  [][ \A m \in InboundInputs : \A id \in ReqIds :
        ( /\ IsInformFor(m, id)
          /\ pendingRequests[id] # 0
          /\ (handleMessageWithConversation(m) \/ handleMessage(m)) )
        => LET o == pendingRequests[id]
           IN /\ requests[o].settled = "pending"
              /\ requests'[o].settled = "resolved"
              /\ requests'[o].value = m.id
              /\ requests'[o].retries = requests[o].retries
              /\ pendingRequests'[id] = 0
              /\ (requests[o].timeout # Undefined => timers'[o][requests[o].timeout[1]].status # "armed")
              /\ protoEvents'[o] = Append(protoEvents[o], PEvent("responseReceived", m.id, id)) ]_vars

\* resolved by reply p2 after one retry whose timer was armed again
C9_Witness ==
  \E o \in 1..Len(requests) :
    /\ requests[o].settled = "resolved"
    /\ requests[o].value = "p2"
    /\ requests[o].retries = 1
    /\ Len(timers[o]) = 2
    /\ timers[o][2].status = "cleared"
    /\ Last(protoEvents[o]) = PEvent("responseReceived", "p2", "r1")

\* C10 (as claimed): when the first deadline timer of a request initiated with
\* maxRetries = 0 and a positive timeout fires and no reply has arrived, the
\* promise is rejected with the request-timeout error, the entry is deleted,
\* and no retry is started.
C10_ZeroRetriesTimesOutAtOnce ==
  [][ \A o \in 1..Len(requests) :
        ( /\ requests[o].options.maxRetries = Some(0)
          /\ requests[o].options.timeout # Undefined
          /\ requests[o].options.timeout[1] > 0
          /\ pendingRequests[requests[o].id] = o
          /\ protoEvents[o] = <<PEvent("requestInitiated", requests[o].id, "")>>
          /\ requests[o].retries = 0
          /\ handleTimeout(o, 1) )
        => /\ requests'[o].settled = "rejected"
           /\ requests'[o].value = "Request timeout"
           /\ pendingRequests'[requests[o].id] = 0
           /\ requests'[o].retries = 0
           /\ retryDelays'[o] = 0 ]_vars

(* ======================= retry policy claims ======================= *)
\* request object o went through initiateRequest's registration
Registered(o) == protoEvents[o] # <<>>

\* no deadline timer set for request id has fired
NoTimerFiredFor(id) ==
  \A o \in 1..Len(requests) :
    requests[o].id = id => \A k \in 1..Len(timers[o]) : timers[o][k].status # "fired"

HasProtoEvent(o, name, a, b) ==
  \E i \in 1..Len(protoEvents[o]) : protoEvents[o][i] = PEvent(name, a, b)

\* C11: for a request initiated with maxRetries = M >= 1 whose retries were
\* all caused by failure replies (no deadline timer for its id has fired):
\* when k <= M failure replies have been handled for it and an inform reply
\* arrives, the promise is still unsettled (it was not rejected), the reply
\* resolves it with that message, and the retry count is then exactly k.
C11_FailuresThenInform ==
  [][ \A m \in InboundInputs : \A id \in ReqIds :
        ( /\ IsInformFor(m, id)
          /\ pendingRequests[id] # 0
          /\ requests[pendingRequests[id]].options.maxRetries # Undefined
          /\ requests[pendingRequests[id]].options.maxRetries[1] >= 1
          /\ requests[pendingRequests[id]].failures <= requests[pendingRequests[id]].options.maxRetries[1]
          /\ NoTimerFiredFor(id)
          /\ (handleMessageWithConversation(m) \/ handleMessage(m)) )
        => LET o == pendingRequests[id]
           IN /\ requests[o].settled = "pending"
              /\ requests'[o].settled = "resolved"
              /\ requests'[o].value = m.id
              /\ requests'[o].retries = requests[o].failures
              /\ protoEvents'[o] = Append(protoEvents[o], PEvent("responseReceived", m.id, id)) ]_vars

\* maxRetries 2, two failure replies, then the inform reply p1
C11_Witness ==
  \E o \in 1..Len(requests) :
    /\ requests[o].options.maxRetries = Some(2)
    /\ requests[o].failures = 2
    /\ requests[o].retries = 2
    /\ requests[o].settled = "resolved"
    /\ requests[o].value = "p1"
    /\ NoTimerFiredFor(requests[o].id)

IsFailureFor(m, id) == m.performative = "failure" /\ m.inReplyTo = Some(id)

\* a failure reply for request id is handled
FailureReplyFor(id) ==
  \E m \in InboundInputs :
    IsFailureFor(m, id) /\ (handleMessageWithConversation(m) \/ handleMessage(m))

\* a deadline timer set for request id fires
DeadlineExpiryFor(id) ==
  \E o \in 1..Len(requests) : \E k \in 1..Len(timers[o]) :
    requests[o].id = id /\ handleTimeout(o, k)

\* the first half of the retry rule: what the hit itself does
C12_RetryStarts ==
  \A id \in ReqIds :
    ( /\ pendingRequests[id] # 0
      /\ requests[pendingRequests[id]].retries < requests[pendingRequests[id]].maxRetries
      /\ (FailureReplyFor(id) \/ DeadlineExpiryFor(id)) )
    => LET o == pendingRequests[id]
       IN /\ requests'[o].retries = requests[o].retries + 1
          /\ pendingRequests'[id] = o
          /\ requests[o].settled = "pending"
          /\ requests'[o].settled = "pending"
          /\ (requests[o].timeout # Undefined
                => timers'[o][requests[o].timeout[1]].status # "armed")
          /\ Len(timers'[o]) = Len(timers[o])
          /\ retryDelays'[o] = retryDelays[o] + 1
          /\ protoEvents'[o] = protoEvents[o]

\* a fresh deadline timer is armed for o and becomes the entry's handle
FreshTimerArmed(o) ==
  /\ Len(timers'[o]) = Len(timers[o]) + 1
  /\ Last(timers'[o]).status = "armed"
  /\ requests'[o].timeout = Some(Len(timers'[o]))
  /\ \A k \in 1..Len(timers[o]) : timers'[o][k] = timers[o][k]

RetryNotified(o) ==
  protoEvents'[o] = Append(protoEvents[o], PEvent("requestRetry", requests[o].id, requests[o].retries))

\* C12 (as claimed): a failure reply or a deadline expiry that hits a pending
\* entry with retries < maxRetries adds 1 to retries, keeps the entry and
\* leaves the promise unsettled, leaves the entry's current timer not armed;
\* when the retry delay has elapsed a fresh deadline timer is armed and
\* requestRetry is emitted.
C12_RetryRule_AsClaimed ==
  [][ /\ C12_RetryStarts
      /\ \A o \in 1..Len(requests) :
            RetryDelayElapses(o) => (FreshTimerArmed(o) /\ RetryNotified(o)) ]_vars

\* C12 (amended): as above, but when the retry delay has elapsed the fresh
\* deadline timer is armed only if the protocol's default timeout is greater
\* than 0 (otherwise no timer is armed); requestRetry is emitted either way.
C12_RetryRule ==
  [][ /\ C12_RetryStarts
      /\ \A o \in 1..Len(requests) :
            RetryDelayElapses(o)
            => /\ RetryNotified(o)
               /\ IF protocol.defaultTimeout > 0
                  THEN FreshTimerArmed(o) /\ Last(timers'[o]).duration = protocol.defaultTimeout
                  ELSE timers' = timers /\ requests' = requests ]_vars

\* one expiry retried, the fresh timer armed; and one failure reply retried
\* with the delay still running
C12_Witness ==
  \E o \in 1..Len(requests) :
    /\ pendingRequests[requests[o].id] = o
    /\ requests[o].retries = 2
    /\ requests[o].failures = 1
    /\ retryDelays[o] = 1
    /\ Len(timers[o]) = 2
    /\ timers[o][1].status = "fired"
    /\ timers[o][2].status = "cleared"
    /\ HasProtoEvent(o, "requestRetry", requests[o].id, 1)

\* C13: a deadline expiry that hits a pending entry with retries = maxRetries
\* deletes the entry, rejects its promise with "Request timeout" and emits
\* requestTimeout; a failure reply that hits such an entry deletes the entry,
\* rejects its promise with the error made from the reply (its content, or
\* "Request failed") and emits requestFailed; no retry is started.
C13_RetriesExhausted ==
  [][ \A id \in ReqIds :
        ( /\ pendingRequests[id] # 0
          /\ requests[pendingRequests[id]].retries = requests[pendingRequests[id]].maxRetries )
        => LET o == pendingRequests[id]
           IN /\ DeadlineExpiryFor(id)
                 => /\ pendingRequests'[id] = 0
                    /\ requests[o].settled = "pending"
                    /\ requests'[o].settled = "rejected"
                    /\ requests'[o].value = "Request timeout"
                    /\ requests'[o].retries = requests[o].retries
                    /\ retryDelays'[o] = retryDelays[o]
                    /\ protoEvents'[o] = Append(protoEvents[o], PEvent("requestTimeout", id, "Request timeout"))
              /\ \A m \in InboundInputs :
                   (IsFailureFor(m, id) /\ (handleMessageWithConversation(m) \/ handleMessage(m)))
                   => LET error == IF m.content # Undefined /\ m.content[1] # ""
                                   THEN m.content[1] ELSE "Request failed"
                      IN /\ pendingRequests'[id] = 0
                         /\ requests[o].settled = "pending"
                         /\ requests'[o].settled = "rejected"
                         /\ requests'[o].value = error
                         /\ requests'[o].retries = requests[o].retries
                         /\ retryDelays'[o] = retryDelays[o]
                         /\ protoEvents'[o] = Append(protoEvents[o], PEvent("requestFailed", m.id, error)) ]_vars

\* one request rejected by its timer and one by a failure reply, each after
\* its retries were used up
C13_Witness ==
  \E o1, o2 \in 1..Len(requests) :
    /\ requests[o1].retries = requests[o1].maxRetries
    /\ requests[o1].settled = "rejected"
    /\ requests[o1].value = "Request timeout"
    /\ HasProtoEvent(o1, "requestTimeout", requests[o1].id, "Request timeout")
    /\ pendingRequests[requests[o1].id] = 0
    /\ requests[o2].retries = requests[o2].maxRetries
    /\ requests[o2].settled = "rejected"
    /\ requests[o2].value = "Request failed"
    /\ HasProtoEvent(o2, "requestFailed", "f1", "Request failed")
    /\ pendingRequests[requests[o2].id] = 0

\* C14: cancelRequest(id) on a pending id returns true, deletes the entry,
\* leaves the timer named by the entry's handle not armed, rejects the promise
\* with "Request cancelled" and emits requestCancelled, after which
\* cancelRequest(id) returns false; on an id that is not pending it returns
\* false and changes nothing.
C14_CancelRequest ==
  [][ \A id \in ReqIds :
        cancelRequest(id)
        => IF pendingRequests[id] # 0
           THEN LET o == pendingRequests[id]
                IN /\ cancelRequest_returns(id)
                   /\ pendingRequests'[id] = 0
                   /\ \A other \in ReqIds \ {id} : pendingRequests'[other] = pendingRequests[other]
                   /\ (requests[o].timeout # Undefined
                         => timers'[o][requests[o].timeout[1]].status # "armed")
                   /\ requests[o].settled = "pending"
                   /\ requests'[o].settled = "rejected"
                   /\ requests'[o].value = "Request cancelled"
                   /\ protoEvents'[o] = Append(protoEvents[o], PEvent("requestCancelled", id, ""))
                   /\ ~cancelRequest_returns(id)'
           ELSE /\ ~cancelRequest_returns(id)
                /\ UNCHANGED protoVars ]_vars

\* a request cancelled while its first timer was armed; the id is no longer
\* pending, so a second cancelRequest returns false
C14_Witness ==
  \E o \in 1..Len(requests) :
    /\ requests[o].settled = "rejected"
    /\ requests[o].value = "Request cancelled"
    /\ timers[o] # <<>>
    /\ timers[o][1].status = "cleared"
    /\ Last(protoEvents[o]) = PEvent("requestCancelled", requests[o].id, "")
    /\ ~cancelRequest_returns(requests[o].id)

(* ======================= timer claims ======================= *)
ArmedTimers(o) == {k \in 1..Len(timers[o]) : timers[o][k].status = "armed"}

\* C15 (as claimed): every entry of the pending-request table whose
\* registration armed a deadline timer (timeout > 0) has exactly one armed
\* deadline timer, in every reachable state.
C15_ExactlyOneTimer ==
  \A id \in ReqIds :
    (pendingRequests[id] # 0 /\ timers[pendingRequests[id]] # <<>>)
    => Cardinality(ArmedTimers(pendingRequests[id])) = 1

\* the part of C15 that says "never two": violated as well, by a deadline
\* expiry and a failure reply that both start a retry within one retry delay
C15_NeverTwoTimers ==
  \A id \in ReqIds :
    pendingRequests[id] # 0 => Cardinality(ArmedTimers(pendingRequests[id])) <= 1

\* C16 (as claimed): a request object whose promise is settled and whose entry
\* is gone from the table has no armed deadline timer, in every reachable
\* state.
C16_NoTimerAfterSettlement ==
  \A o \in 1..Len(requests) :
    (requests[o].settled # "pending" /\ pendingRequests[requests[o].id] # o)
    => ArmedTimers(o) = {}

\* C17: whenever a constructed conversation is in completed, failed,
\* cancelled or timeout, its deadline timer is not armed and its timer handle
\* is unset.
C17_TerminalHasNoTimer ==
  (conv.created /\ conv.state \in TerminalStates)
  => (convTimers = {} /\ conv.timeoutHandle = Undefined)

\* a conversation with a deadline, completed straight from 'initiated' while
\* its timer was armed
C17_Witness ==
  /\ conv.created
  /\ conv.timeout = Some(100)
  /\ conv.state = "completed"
  /\ ~deadlinePassed
  /\ convEvents = <<[name |-> "stateChanged", a |-> "completed", b |-> "initiated"],
                    [name |-> "completed", a |-> "", b |-> ""]>>

(* ======================= settlement claims ======================= *)
\* the o-th call registered a request whose id was not pending and armed its
\* deadline timer (timeout > 0)
C18_Eligible(o) ==
  /\ o \in DOMAIN requests
  /\ Registered(o)
  /\ ~requests[o].wasPending
  /\ timers[o] # <<>>

C18_Settled(o) ==
  /\ o \in DOMAIN requests
  /\ requests[o].settled # "pending"
  /\ pendingRequests[requests[o].id] # o

\* C18 (as claimed): when armed timers eventually fire and retry delays
\* eventually elapse, the promise of every request registered with a positive
\* timeout under an id that was not pending is eventually settled, and its
\* entry is then not in the table.
C18_EventuallySettled ==
  \A o \in Callers : [](C18_Eligible(o) => <>C18_Settled(o))

\* C19: handling an inbound inform or failure whose in-reply-to id is not in
\* the pending table changes nothing: the table, every promise, every retry
\* count, every timer, every running retry delay and every notification log
\* stay as they were.
C19_UnmatchedReplyDropped ==
  [][ \A m \in InboundInputs :
        ( /\ m.performative \in {"inform", "failure"}
          /\ m.inReplyTo # Undefined
          /\ (m.inReplyTo[1] \in ReqIds => pendingRequests[m.inReplyTo[1]] = 0)
          /\ (handleMessageWithConversation(m) \/ handleMessage(m)) )
        => UNCHANGED protoVars ]_vars

\* request r1 already resolved while r2 is still pending: a late reply for r1
\* matches no entry
C19_Witness ==
  \E o1, o2 \in 1..Len(requests) :
    /\ requests[o1].id = "r1"
    /\ requests[o1].settled = "resolved"
    /\ pendingRequests["r1"] = 0
    /\ pendingRequests["r2"] = o2
    /\ requests[o2].settled = "pending"
    /\ ArmedTimers(o2) # {}

(* ======================= registration claims ======================= *)
\* C20: initiateRequest with a message whose performative is not "request"
\* returns a rejected promise, leaves the pending table and every timer as
\* they were and emits nothing; with performative "request" it puts one entry
\* under the message id with retries 0 and an unsettled promise, arms one
\* deadline timer of the effective timeout (the option if given and not 0,
\* else the protocol default) exactly when that timeout is greater than 0,
\* and emits requestInitiated.
C20_InitiateRequest ==
  [][ \A i \in CallInputs(Len(requests) + 1) :
        initiateRequest(i.message, i.options)
        => LET n == Len(requests) + 1
               timeout == IF i.options.timeout # Undefined /\ i.options.timeout[1] # 0
                          THEN i.options.timeout[1] ELSE protocol.defaultTimeout
           IN /\ Len(requests') = n
              /\ \A o \in 1..Len(requests) :
                    /\ requests'[o] = requests[o]
                    /\ timers'[o] = timers[o]
                    /\ protoEvents'[o] = protoEvents[o]
              /\ IF i.message.performative # "request"
                 THEN /\ requests'[n].settled = "rejected"
                      /\ requests'[n].value = "Message must have performative request"
                      /\ pendingRequests' = pendingRequests
                      /\ timers'[n] = <<>>
                      /\ protoEvents'[n] = <<>>
                 ELSE /\ pendingRequests' = [pendingRequests EXCEPT ![i.message.id] = n]
                      /\ requests'[n].id = i.message.id
                      /\ requests'[n].retries = 0
                      /\ requests'[n].settled = "pending"
                      /\ timers'[n] = IF timeout > 0
                                       THEN <<[status |-> "armed", duration |-> timeout]>>
                                       ELSE <<>>
                      /\ (requests'[n].timeout # Undefined) = (timeout > 0)
                      /\ protoEvents'[n] = <<PEvent("requestInitiated", i.message.id, "")>> ]_vars

\* a call with an inform message, rejected, followed by a call with a request
\* message, registered with its timer armed
C20_Witness ==
  /\ Len(requests) = 2
  /\ requests[1].settled = "rejected"
  /\ requests[1].value = "Message must have performative request"
  /\ timers[1] = <<>>
  /\ protoEvents[1] = <<>>
  /\ pendingRequests[requests[2].id] = 2
  /\ requests[2].retries = 0
  /\ timers[2] = <<[status |-> "armed", duration |-> 50]>>
  /\ protoEvents[2] = <<PEvent("requestInitiated", requests[2].id, "")>>

(* ======================= independence claims ======================= *)
\* an inform or failure reply for request id is handled
ReplyFor(id) ==
  \E m \in InboundInputs :
    /\ m.performative \in {"inform", "failure"}
    /\ m.inReplyTo = Some(id)
    /\ (handleMessageWithConversation(m) \/ handleMessage(m))

\* the retry delay of a retry started for request id elapses
RetryDelayFor(id) ==
  \E o \in 1..Len(requests) : requests[o].id = id /\ RetryDelayElapses(o)

\* C21: a reply, a deadline expiry, the end of a retry delay or a
\* cancellation for request id A leaves, for every other pending id B, the
\* table entry, the request object (retry count, timer handle, promise), its
\* timers, its running retry delays and its notifications as they were.
C21_OtherRequestsUntouched ==
  [][ \A A \in ReqIds : \A B \in ReqIds \ {A} :
        ( /\ pendingRequests[B] # 0
          /\ (ReplyFor(A) \/ DeadlineExpiryFor(A) \/ RetryDelayFor(A) \/ cancelRequest(A)) )
        => LET o == pendingRequests[B]
           IN /\ pendingRequests'[B] = o
              /\ requests'[o] = requests[o]
              /\ requests'[o].settled = "pending"
              /\ timers'[o] = timers[o]
              /\ retryDelays'[o] = retryDelays[o]
              /\ protoEvents'[o] = protoEvents[o] ]_vars

\* r1 was retried once and then rejected by a failure reply while r2 is still
\* pending with its first timer armed and no retry
C21_Witness ==
  \E o1, o2 \in 1..Len(requests) :
    /\ requests[o1].id = "r1"
    /\ requests[o1].retries = 1
    /\ requests[o1].settled = "rejected"
    /\ requests[o1].value = "boom"
    /\ pendingRequests["r2"] = o2
    /\ requests[o2].retries = 0
    /\ requests[o2].settled = "pending"
    /\ timers[o2] = <<[status |-> "armed", duration |-> 50]>>
    /\ protoEvents[o2] = <<PEvent("requestInitiated", "r2", "")>>

(* ======================= frame claims ======================= *)
\* C22: a retry changes nothing but the entry's retry count and timer: the
\* step that starts it (a failure reply or a deadline expiry on an entry with
\* retries < maxRetries) leaves the table, every notification log, the
\* received requests and the conversation with its message log as they were
\* and changes only the retry count of the request object; the step that ends
\* the retry delay changes only the timer handle and appends requestRetry and
\* nothing else (no requestInitiated) to the object's notifications.
C22_RetryDoesNotResend ==
  [][ /\ \A id \in ReqIds :
           ( /\ pendingRequests[id] # 0
             /\ requests[pendingRequests[id]].retries < requests[pendingRequests[id]].maxRetries
             /\ (FailureReplyFor(id) \/ DeadlineExpiryFor(id)) )
           => LET o == pendingRequests[id]
              IN /\ UNCHANGED <<conv, convTimers, deadlinePassed, convEvents, convErr>>
                 /\ UNCHANGED <<protocol, pendingRequests, protoEvents, received>>
                 /\ requests'[o] = [requests[o] EXCEPT !.retries = @ + 1,
                                                       !.failures = requests'[o].failures]
      /\ \A o \in 1..Len(requests) :
           RetryDelayElapses(o)
           => /\ UNCHANGED <<conv, convTimers, deadlinePassed, convEvents, convErr>>
              /\ UNCHANGED <<protocol, pendingRequests, received>>
              /\ requests'[o] = [requests[o] EXCEPT !.timeout = requests'[o].timeout]
              /\ protoEvents' = [protoEvents EXCEPT
                                   ![o] = Append(@, PEvent("requestRetry", requests[o].id, requests[o].retries))] ]_vars

\* a request retried once (requestRetry emitted, announced once) next to a
\* conversation that holds one message
C22_Witness ==
  /\ conv.created
  /\ Len(conv.messages) = 1
  /\ \E o \in 1..Len(requests) :
       /\ pendingRequests[requests[o].id] = o
       /\ requests[o].retries = 1
       /\ protoEvents[o] = <<PEvent("requestInitiated", requests[o].id, ""),
                             PEvent("requestRetry", requests[o].id, 1)>>

(* ======================= introspection claims ======================= *)
\* the registered requests whose promise is not settled
Unsettled == {o \in 1..Len(requests) : Registered(o) /\ requests[o].settled = "pending"}

\* no two initiateRequest calls used the same message id
DistinctIds ==
  \A o1, o2 \in 1..Len(requests) :
    (Registered(o1) /\ Registered(o2) /\ o1 # o2) => requests[o1].id # requests[o2].id

\* C23: in every reachable state getCurrentState() is "idle" when the table
\* has no entry and "waiting" when it has one, hasPendingRequests() is true
\* exactly when getPendingRequestCount() > 0, and, when the requests were
\* initiated with distinct ids, getPendingRequestCount() is the number of
\* initiated requests whose promise is neither resolved nor rejected.
C23_StateFromTable ==
  /\ (\A r \in ReqIds : pendingRequests[r] = 0) => getCurrentState = "idle"
  /\ (\E r \in ReqIds : pendingRequests[r] # 0) => getCurrentState = "waiting"
  /\ hasPendingRequests = (getPendingRequestCount > 0)
  /\ hasPendingRequests = (\E r \in ReqIds : pendingRequests[r] # 0)
  /\ DistinctIds => getPendingRequestCount = Cardinality(Unsettled)

\* two requests with distinct ids, one resolved and one still pending
C23_Witness ==
  /\ Len(requests) = 2
  /\ DistinctIds
  /\ requests[1].settled = "resolved"
  /\ requests[2].settled = "pending"
  /\ getPendingRequestCount = 1
  /\ hasPendingRequests
  /\ getCurrentState = "waiting"

\* C24 (as claimed): a cancelAllRequests() step leaves the table empty and the
\* protocol state idle; every request that was pending at the call has its
\* promise rejected with "Request cancelled", gets one more requestCancelled
\* notification, and has no armed deadline timer afterwards.
C24_CancelAll ==
  [][ cancelAllRequests
      => /\ \A r \in ReqIds : pendingRequests'[r] = 0
         /\ getCurrentState' = "idle"
         /\ \A r \in ReqIds :
              pendingRequests[r] # 0
              => LET o == pendingRequests[r]
                 IN /\ requests'[o].settled = "rejected"
                    /\ requests'[o].value = "Request cancelled"
                    /\ protoEvents'[o] = Append(protoEvents[o], PEvent("requestCancelled", r, ""))
                    /\ \A k \in 1..Len(timers'[o]) : timers'[o][k].status # "armed" ]_vars

\* the same without the last line, and with the timer named by the entry's
\* handle in its place: this much holds
C24_CancelAllHandleTimers ==
  [][ cancelAllRequests
      => /\ \A r \in ReqIds : pendingRequests'[r] = 0
         /\ getCurrentState' = "idle"
         /\ \A r \in ReqIds :
              pendingRequests[r] # 0
              => LET o == pendingRequests[r]
                 IN /\ requests'[o].settled = "rejected"
                    /\ requests'[o].value = "Request cancelled"
                    /\ protoEvents'[o] = Append(protoEvents[o], PEvent("requestCancelled", r, ""))
                    /\ (requests[o].timeout # Undefined
                          => timers'[o][requests[o].timeout[1]].status # "armed") ]_vars

(* ======================= context claims ======================= *)
\* C25: for a conversation in any state, after any participant and metadata
\* changes, Conversation.fromContext(conv.toContext(), options) returns (does
\* not throw) a conversation with the same id, the same participants in the
\* same order, the same state and the same metadata.
C25_ContextRoundTrip ==
  [][ \A options \in FromContextOptionInputs :
        RoundTrip(options)
        => /\ convErr' = ""
           /\ conv'.rebuilt
           /\ conv'.id = conv.id
           /\ conv'.participants = conv.participants
           /\ conv'.state = conv.state
           /\ conv'.metadata = conv.metadata ]_vars

\* rebuilt from a waiting conversation whose initiator A is listed after B and
\* whose metadata had been set
C25_Witness ==
  /\ conv.rebuilt
  /\ conv.id = ConvId
  /\ conv.state = "waiting"
  /\ conv.participants = <<"B", "A">>
  /\ conv.metadata["k1"] = Some("v1")
  /\ convEvents = <<>>

(* ======================= message log claims ======================= *)
IsPrefix(s, t) == Len(s) <= Len(t) /\ \A i \in 1..Len(s) : t[i] = s[i]

\* C26: the message log only grows at its end: over every step the earlier
\* log is a prefix of the later one; a successful addMessage(m) makes the log
\* the earlier log followed by m and makes m the value of getLastMessage();
\* and for every id of a logged message getMessage(id) returns a message of
\* the log that has this id.
C26_LogAppendOnly ==
  [][ /\ conv.created => IsPrefix(getMessages(conv), getMessages(conv'))
      /\ \A m \in MessageInputs :
           (addMessage(m) /\ convErr' = "")
           => /\ getMessages(conv') = Append(getMessages(conv), m)
              /\ getLastMessage(conv') = Some(m)
      /\ \A id \in MsgIds :
           (\E i \in 1..Len(conv'.messages) : conv'.messages[i].id = id)
           => /\ getMessage(conv', id) # Undefined
              /\ getMessage(conv', id)[1].id = id
              /\ Includes(conv'.messages, getMessage(conv', id)[1]) ]_vars

\* m1 logged first, m2 second
C26_Witness ==
  /\ conv.created
  /\ getMessages(conv) = <<[id |-> "m1", conversationId |-> Undefined],
                           [id |-> "m2", conversationId |-> Some(ConvId)]>>
  /\ getLastMessage(conv) = Some([id |-> "m2", conversationId |-> Some(ConvId)])
  /\ getMessage(conv, "m1") = Some([id |-> "m1", conversationId |-> Undefined])

\* C27: addMessage of a message that declares another conversation's id
\* raises the mismatch error and leaves the conversation (log, id index,
\* state) and the notifications as they were; addMessage of a message that
\* declares this conversation's id or none, below capacity, appends it,
\* indexes it, keeps the state and emits exactly one messageAdded.
C27_ConversationIdChecked ==
  [][ \A m \in MessageInputs :
        (conv.created /\ addMessage(m))
        => IF m.conversationId # Undefined /\ m.conversationId[1] # conv.id
           THEN /\ convErr' = "Message conversation ID does not match"
                /\ conv' = conv
                /\ convEvents' = convEvents
           ELSE IF TruthyNum(conv.maxMessages) /\ Len(conv.messages) >= conv.maxMessages[1]
           THEN conv' = conv /\ convEvents' = convEvents
           ELSE /\ convErr' = ""
                /\ conv'.messages = Append(conv.messages, m)
                /\ conv'.messageIndex[m.id] = Some(m)
                /\ conv'.state = conv.state
                /\ convEvents' = Append(convEvents, [name |-> "messageAdded", a |-> m.id, b |-> ""]) ]_vars

\* one message of this conversation logged, then one of conversation c2
\* refused
C27_Witness ==
  /\ conv.created
  /\ conv.messages = <<[id |-> "m2", conversationId |-> Some(ConvId)]>>
  /\ CountEvents("messageAdded") = 1
  /\ convErr = "Message conversation ID does not match"

(* ======================= participant claims ======================= *)
Occurrences(seq, x) == Cardinality({i \in 1..Len(seq) : seq[i] = x})

\* C28 (as claimed): removeParticipant(initiator) raises an error and leaves
\* the list as it was; after addParticipant(a) the list holds a, and after
\* removeParticipant(a) of another agent it does not, so that the same call
\* made again changes nothing; addParticipant never makes a second occurrence
\* of an agent; participantAdded / participantRemoved is appended exactly when
\* the membership of the agent changed.
C28_ParticipantsIdempotent ==
  [][ \A a \in Agents :
        /\ (conv.created /\ a = conv.initiator /\ removeParticipant(a))
           => /\ convErr' = "Cannot remove conversation initiator"
              /\ conv'.participants = conv.participants
              /\ convEvents' = convEvents
        /\ (conv.created /\ addParticipant(a))
           => /\ Includes(conv'.participants, a)
              /\ Occurrences(conv'.participants, a) <= IF Includes(conv.participants, a)
                                                       THEN Occurrences(conv.participants, a)
                                                       ELSE 1
              /\ (convEvents' # convEvents) = ~Includes(conv.participants, a)
              /\ convEvents' # convEvents
                   => convEvents' = Append(convEvents, [name |-> "participantAdded", a |-> a, b |-> ""])
        /\ (conv.created /\ a # conv.initiator /\ removeParticipant(a))
           => /\ ~Includes(conv'.participants, a)
              /\ (convEvents' # convEvents) = Includes(conv.participants, a)
              /\ convEvents' # convEvents
                   => convEvents' = Append(convEvents, [name |-> "participantRemoved", a |-> a, b |-> ""]) ]_vars

\* the same for participant lists that name no agent twice: this much holds
C28_WithoutDuplicates ==
  [][ \A a \in Agents :
        (\A x \in Agents : Occurrences(conv.participants, x) <= 1)
        => /\ (conv.created /\ a = conv.initiator /\ removeParticipant(a))
              => /\ convErr' = "Cannot remove conversation initiator"
                 /\ conv'.participants = conv.participants
                 /\ convEvents' = convEvents
           /\ (conv.created /\ addParticipant(a))
              => /\ Includes(conv'.participants, a)
                 /\ Occurrences(conv'.participants, a) = 1
                 /\ (convEvents' # convEvents) = ~Includes(conv.participants, a)
           /\ (conv.created /\ a # conv.initiator /\ removeParticipant(a))
              => /\ ~Includes(conv'.participants, a)
                 /\ (convEvents' # convEvents) = Includes(conv.participants, a) ]_vars

(* ======================= notification claims ======================= *)
IsStateChanged(e) == e.name = "stateChanged"

\* the stateChanged notifications of a notification log, oldest first
StateChanges(events) == SelectSeq(events, IsStateChanged)

\* each (new, old) pair starts where the one before ended, the first one at
\* 'initiated' and the last one ends at state cur
Chains(changes, cur) ==
  /\ \A i \in 1..Len(changes) :
       changes[i].b = IF i = 1 THEN "initiated" ELSE changes[i - 1].a
  /\ cur = IF Len(changes) = 0 THEN "initiated" ELSE changes[Len(changes)].a

\* C29: every step that changes the state of a constructed conversation (a
\* successful lifecycle call or the deadline) appends exactly one
\* stateChanged(new state, old state), followed by the notification named
\* after the new state; a successful lifecycle call always is such a step; a
\* lifecycle call that raises an error appends nothing; hence the
\* stateChanged notifications chain from 'initiated' to the current state.
C29_StateChangedChain ==
  [][ conv.created
      => /\ conv'.state # conv.state
            => convEvents' = convEvents \o
                 <<[name |-> "stateChanged", a |-> conv'.state, b |-> conv.state],
                   [name |-> conv'.state, a |-> "", b |-> ""]>>
         /\ conv'.state = conv.state
            => StateChanges(convEvents') = StateChanges(convEvents)
         /\ (LifecycleCall /\ convErr' = "") => conv'.state # conv.state
         /\ (LifecycleCall /\ convErr' # "") => convEvents' = convEvents
         /\ Chains(StateChanges(convEvents'), conv'.state) ]_vars

\* activate, setWaiting, complete, then a complete that is refused
C29_Witness ==
  /\ conv.created
  /\ StateChanges(convEvents) =
       <<[name |-> "stateChanged", a |-> "active", b |-> "initiated"],
         [name |-> "stateChanged", a |-> "waiting", b |-> "active"],
         [name |-> "stateChanged", a |-> "completed", b |-> "waiting"]>>
  /\ convErr = "Cannot complete conversation from terminal state"

(* ======================= separation claims ======================= *)
\* a step of a protocol operation
ProtocolOperation ==
  \/ \E i \in CallInputs(Len(requests) + 1) : initiateRequest(i.message, i.options)
  \/ \E o \in 1..Len(timers) : \E k \in 1..Len(timers[o]) : handleTimeout(o, k)
  \/ \E m \in InboundInputs : handleMessageWithConversation(m)
  \/ \E m \in InboundInputs : handleMessage(m)
  \/ \E o \in 1..Len(requests) : RetryDelayElapses(o)
  \/ \E r \in ReqIds : cancelRequest(r)
  \/ cancelAllRequests

\* C30: a step of a protocol operation (initiateRequest, an inbound message,
\* a deadline expiry, the end of a retry delay, cancelRequest,
\* cancelAllRequests) leaves the conversation (state, participants, message
\* log and everything else of it), its timer and its notifications as they
\* were; a step of a Conversation operation leaves the pending table, the
\* request objects, their timers and their notifications as they were.
C30_ConversationAndProtocolSeparate ==
  [][ /\ ProtocolOperation => UNCHANGED <<conv, convTimers, deadlinePassed, convEvents, convErr>>
      /\ ConvNext => UNCHANGED <<protocol, requests, pendingRequests, timers,
                                 retryDelays, protoEvents, received>> ]_vars

\* an active conversation holding no message, next to a request that was
\* cancelled after one retry
C30_Witness ==
  /\ conv.created
  /\ conv.state = "active"
  /\ convEvents # <<>>
  /\ \E o \in 1..Len(requests) :
       /\ requests[o].retries = 1
       /\ requests[o].settled = "rejected"
       /\ requests[o].value = "Request cancelled"
       /\ pendingRequests[requests[o].id] = 0

(* ======================= duplicate ids and outcomes ======================= *)
\* C33 (as claimed): when initiateRequest registers an id that is already in
\* the pending table, the request object it replaces is left with no armed
\* deadline timer.
C33_EarlierCallNotOrphaned ==
  [][\A o \in 1..Len(requests) :
       (/\ pendingRequests[requests[o].id] = o
        /\ pendingRequests'[requests[o].id] \notin {0, o})
       => {k \in 1..Len(timers'[o]) : timers'[o][k].status = "armed"} = {}]_vars

TerminalNames == {"responseReceived", "requestFailed", "requestTimeout", "requestCancelled"}

\* the terminal notifications in the notification log of one request
TerminalEvents(events) == {i \in 1..Len(events) : events[i].name \in TerminalNames}

\* C34: in every step, a promise that is settled keeps its outcome and its
\* value, and afterwards every registered request has at most one terminal
\* notification, has one exactly when its promise is settled, and is resolved
\* exactly when that notification is responseReceived.
C34_OneTerminalOutcome ==
  [][\A o \in 1..Len(requests') :
       /\ (o <= Len(requests) /\ requests[o].settled # "pending")
          => (requests'[o].settled = requests[o].settled /\ requests'[o].value = requests[o].value)
       /\ protoEvents'[o] # <<>>
          => /\ Cardinality(TerminalEvents(protoEvents'[o])) <= 1
             /\ (requests'[o].settled # "pending") <=> (TerminalEvents(protoEvents'[o]) # {})
             /\ (requests'[o].settled = "resolved")
                <=> (\E i \in TerminalEvents(protoEvents'[o]) : protoEvents'[o][i].name = "responseReceived")]_vars

\* a request whose first deadline expired (retry), that was resolved by a reply
\* during the retry delay, and whose timer armed after the delay fired later
C34_Witness ==
  \E o \in 1..Len(requests) :
    /\ requests[o].settled = "resolved"
    /\ requests[o].retries = 1
    /\ Len(timers[o]) = 2
    /\ timers[o][1].status = "fired"
    /\ timers[o][2].status = "fired"
    /\ Cardinality(TerminalEvents(protoEvents[o])) = 1

RetryEvents(events) == {i \in 1..Len(events) : events[i].name = "requestRetry"}

\* C35: in every reachable state every registered request, pending or not,
\* has 0 <= retries <= maxRetries, and at most maxRetries requestRetry
\* notifications were emitted for it.
C35_RetriesBounded ==
  \A o \in 1..Len(requests) :
    Registered(o)
    => /\ 0 <= requests[o].retries
       /\ requests[o].retries <= requests[o].maxRetries
       /\ Cardinality(RetryEvents(protoEvents[o])) <= requests[o].maxRetries

\* a pending entry at its maximum of two retries: its deadline expired, and a
\* failure reply arrived during the retry delay that followed
C35_Witness ==
  \E id \in ReqIds :
    /\ pendingRequests[id] # 0
    /\ LET o == pendingRequests[id]
       IN /\ requests[o].maxRetries = 2
          /\ requests[o].retries = 2
          /\ requests[o].failures = 1
          /\ timers[o][1].status = "fired"
          /\ retryDelays[o] = 2

\* C36 (as claimed): once a terminal notification was emitted for a request,
\* no step emits another notification for it.
C36_NothingAfterTerminal ==
  [][\A o \in 1..Len(requests) :
       TerminalEvents(protoEvents[o]) # {} => protoEvents'[o] = protoEvents[o]]_vars

\* the timeout initiateRequest computes for the o-th call
InitialTimeout(o) == OrElse(requests[o].options.timeout, protocol.defaultTimeout)

\* C37: in every reachable state, of the deadline timers armed for a
\* registered request the one armed by initiateRequest (there is one when the
\* per-request timeout is positive) has the per-request timeout as duration,
\* and every timer armed after a retry delay has the protocol's default
\* timeout as duration.
C37_RetryTimerUsesDefault ==
  \A o \in 1..Len(requests) :
    Registered(o)
    => \A k \in 1..Len(timers[o]) :
         timers[o][k].duration = IF InitialTimeout(o) > 0 /\ k = 1
                                 THEN InitialTimeout(o)
                                 ELSE protocol.defaultTimeout

\* a request initiated with timeout 20 on a protocol whose default is 50: the
\* first timer (20) fired, the timer armed after the retry delay lasts 50
C37_Witness ==
  \E o \in 1..Len(requests) :
    /\ requests[o].options.timeout = Some(20)
    /\ protocol.defaultTimeout = 50
    /\ timers[o] = <<[status |-> "fired", duration |-> 20], [status |-> "armed", duration |-> 50]>>

(* ======================= rebuilt conversations ======================= *)
\* C38 (as claimed): the conversation that
\* Conversation.fromContext(conv.toContext(), options) returns has the
\* initiator of conv.
C38_SameInitiator ==
  [][ \A options \in FromContextOptionInputs :
        (RoundTrip(options) /\ convErr' = "") => conv'.initiator = conv.initiator ]_vars

(* ======================= Message claims ======================= *)
EmptyReceiver(r) == (~r.isArray /\ r.items[1] = "") \/ (r.isArray /\ Len(r.items) = 0)

\* C31: new Message(options) throws exactly when the sender is empty, the
\* performative is empty or the receiver is an empty string or an empty
\* array, and then no message exists; otherwise, also for a performative
\* outside the reference vocabulary, the message is created with the given
\* sender, performative and receiver. After every step every message that
\* exists, built directly or as a reply, has a non-empty sender, performative
\* and receiver.
C31_MessageValidated ==
  [][ /\ \A options \in MessageOptionInputs :
           NewMessage(options)
           => /\ (msgErr' # "") <=> (\/ options.sender = ""
                                     \/ options.performative = ""
                                     \/ EmptyReceiver(options.receiver))
              /\ msgErr' # "" => ~built'.created
              /\ msgErr' = "" => /\ built'.created
                                 /\ built'.sender = options.sender
                                 /\ built'.performative = options.performative
                                 /\ built'.receiver = options.receiver
      /\ \A m \in {built', reply'} :
           m.created => (m.sender # "" /\ m.performative # "" /\ ~EmptyReceiver(m.receiver)) ]_vars

\* a message with a performative outside the vocabulary and two receivers was
\* created, with the warning, and a reply to it was built
C31_Witness ==
  /\ built.created
  /\ built.performative = "custom"
  /\ built.performative \notin validPerformatives
  /\ built.receiver = Arr(<<"B", "C">>)
  /\ reply.created
  /\ reply.receiver = Str("A")

\* the ids isReplyTo is asked about
C32_Ids == {"", "r1", "m0", "uuid"}

\* what C32 says of every reply, whichever call built it
C32_Correlated(s) ==
  /\ reply'.sender = s
  /\ reply'.receiver = Str(built.sender)
  /\ reply'.inReplyTo = Some(built.id)
  /\ isReply(reply')
  /\ \A x \in C32_Ids : isReplyTo(reply', x) <=> x = built.id

\* C32 (as claimed): a reply built by createReply with a non-empty sender
\* has that sender, the sender of the message as receiver, the id of the
\* message as in-reply-to id and the conversation id of the message, and the
\* message is a reply exactly when it has an in-reply-to id.
C32_ReplyCorrelation_AsClaimed ==
  [][ \A i \in ReplyInputs :
        (createReply(i.content, i.performative, i.options) /\ TruthyStr(i.options.sender) /\ msgErr' = "")
        => /\ C32_Correlated(i.options.sender[1])
           /\ reply'.conversationId = built.conversationId
           /\ isReply(built) <=> built.inReplyTo # Undefined ]_vars

\* C32 (corrected): as claimed, except that createReply carries the
\* conversation id only when it is non-empty (the reply has none otherwise)
\* and that a message is a reply exactly when its in-reply-to id is
\* non-empty. A reply built by createResponse or createFailure with a
\* non-empty sender has the same sender, receiver and in-reply-to id and the
\* conversation id of the request as it is; and when such a reply, or an
\* inform built by createReply, comes in while the request is pending, it is
\* handled on the entry of that request: an inform resolves its promise and
\* removes the entry, a failure is counted for it.
C32_ReplyCorrelation ==
  [][ /\ \A i \in ReplyInputs :
           (createReply(i.content, i.performative, i.options) /\ TruthyStr(i.options.sender) /\ msgErr' = "")
           => /\ C32_Correlated(i.options.sender[1])
              /\ reply'.conversationId = IF TruthyStr(built.conversationId)
                                         THEN built.conversationId ELSE Undefined
              /\ isReply(built) <=> TruthyStr(built.inReplyTo)
      /\ \A i \in ResponseInputs :
           (/\ createResponse(i.content, i.sender) \/ createFailure(i.content, i.sender)
            /\ msgErr' = "")
           => /\ C32_Correlated(i.sender)
              /\ reply'.conversationId = built.conversationId
      /\ (DeliverReply /\ pendingRequests[built.id] # 0)
         => LET o == pendingRequests[built.id]
            IN /\ reply.performative = "inform"
                  => (requests'[o].settled = "resolved" /\ pendingRequests'[built.id] = 0)
               /\ reply.performative = "failure"
                  => requests'[o].failures = requests[o].failures + 1 ]_vars

\* a request with an empty conversation id and an empty in-reply-to id was
\* answered by createReply (which dropped the conversation id), and the
\* inform resolved the promise of the request
C32_Witness ==
  /\ built.created
  /\ built.conversationId = Some("")
  /\ built.inReplyTo = Some("")
  /\ reply.created
  /\ reply.performative = "inform"
  /\ reply.sender = "B"
  /\ reply.content = Some("ok")
  /\ reply.conversationId = Undefined
  /\ reply.inReplyTo = Some(built.id)
  /\ Len(requests) = 1
  /\ requests[1].settled = "resolved"

(* ======================= Agent claims ======================= *)
\* C39 (as claimed): when handleMessage receives a request and the agent has
\* no handler for "request" and no "*" handler, the call hands sendMessage a
\* reply addressed to the request's sender whose in-reply-to id is the
\* request's id, and the call's promise is not rejected.
C39_NotUnderstoodReply ==
  [][ \A m \in AgentMessageInputs :
        (/\ agentHandleMessage(m)
         /\ m.performative = "request"
         /\ "request" \notin agent.handlers
         /\ "*" \notin agent.handlers)
        => /\ Len(sent') = Len(sent) + 1
           /\ sent'[Len(sent')].receiver = Str(m.sender)
           /\ sent'[Len(sent')].inReplyTo = Some(m.id)
           /\ calls'[Len(calls')].outcome # "rejected" ]_vars

\* call c ends in the step
CallEnds(c) ==
  /\ c \in DOMAIN calls'
  /\ calls'[c].pc = "ended"
  /\ c \in DOMAIN calls => calls[c].pc # "ended"

====
